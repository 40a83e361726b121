------------------------------ MODULE SkipList ------------------------------
(***************************************************************************)
(* leveldb's memtable index (db/skiplist.h): one writer links nodes while  *)
(* readers walk the list without a lock.  A step of a walk is one load of  *)
(* a pointer, a step of an insertion one store.  A node is its key; the    *)
(* head is before all keys and NULL after them.                            *)
(***************************************************************************)
EXTENDS Integers, FiniteSets, FiniteSetsExt

CONSTANTS
  ListKey,      \* keys that may be inserted
  ListHeight,   \* kMaxHeight
  ListReader    \* threads with an iterator

ASSUME ListAssumption == ListKey \subseteq Nat \ {0} /\ IsFiniteSet(ListKey) /\ ListHeight \in Nat \ {0}

HeadNode == 0
Null == 1 + Max(ListKey \cup {0})
Junk == -1                           \* a pointer nothing was stored in yet
ListLevel == 0..(ListHeight - 1)

VARIABLES
  next,      \* next_ of every node
  heights,   \* the values max_height_ has had
  insert,    \* the writer: [pc, key, height, prev, x, level]
  iter       \* the readers: [pc, node, forward, target, x, level, had]

listVars == <<next, heights, insert, iter>>

Node == {HeadNode} \cup ListKey

Linked(i) == {k \in ListKey : \E n \in Node : next[n][i] = k}

ListInit ==
  /\ next = [n \in Node |-> [i \in ListLevel |-> IF n = HeadNode THEN Null ELSE Junk]]
  /\ heights = {1}
  /\ insert = [pc |-> "idle", key |-> 0, height |-> 0, prev |-> [i \in ListLevel |-> HeadNode],
               x |-> HeadNode, level |-> 0]
  /\ iter = [r \in ListReader |->
              [pc |-> "idle", node |-> Null, forward |-> TRUE, target |-> Null,
               x |-> HeadNode, level |-> 0, had |-> {}]]

---------------------------------------------------------------------------
(* One writer.  RandomHeight is any height.                                *)

InsertKey(k) ==
  /\ insert.pc = "idle" /\ k \notin Linked(0)
  /\ insert' = [insert EXCEPT !.pc = "find", !.key = k, !.x = HeadNode, !.level = Max(heights) - 1]
  /\ UNCHANGED <<next, heights, iter>>

\* FindGreaterOrEqual, noting prev at each level.
FindStep ==
  /\ insert.pc = "find"
  /\ LET n == next[insert.x][insert.level] IN
       insert' = IF n < insert.key THEN [insert EXCEPT !.x = n]
                 ELSE [insert EXCEPT !.prev[insert.level] = insert.x,
                                     !.level = IF insert.level = 0 THEN 0 ELSE insert.level - 1,
                                     !.pc = IF insert.level = 0 THEN "height" ELSE "find"]
  /\ UNCHANGED <<next, heights, iter>>

GrowStep ==
  /\ insert.pc = "height"
  /\ \E h \in 1..ListHeight :
       /\ heights' = IF h > Max(heights) THEN heights \cup {h} ELSE heights
       /\ insert' = [insert EXCEPT !.pc = "init", !.level = 0, !.height = h,
                       !.prev = [i \in ListLevel |-> IF i < Max(heights) THEN @[i] ELSE HeadNode]]
  /\ UNCHANGED <<next, iter>>

(* Variant, never a step: the node is published before it is filled in. *)
StoreSwapped(pc) ==
  LET i == insert.level IN
  IF pc = "init" THEN [next EXCEPT ![insert.prev[i]][i] = insert.key]
                 ELSE [next EXCEPT ![insert.key][i] = next[insert.prev[i]][i]]

\* The pointer of the new node, then the pointer to it.
Store(pc) ==
  LET i == insert.level IN
  IF pc = "init" THEN [next EXCEPT ![insert.key][i] = next[insert.prev[i]][i]]
                 ELSE [next EXCEPT ![insert.prev[i]][i] = insert.key]

LinkStep ==
  /\ insert.pc \in {"init", "publish"}
  /\ next' = Store(insert.pc)
  /\ insert' = IF insert.pc = "init" THEN [insert EXCEPT !.pc = "publish"]
               ELSE IF insert.level + 1 < insert.height
               THEN [insert EXCEPT !.pc = "init", !.level = @ + 1]
               ELSE [insert EXCEPT !.pc = "idle"]
  /\ UNCHANGED <<heights, iter>>

---------------------------------------------------------------------------
(* The readers.  max_height_ is read without a barrier: any value it has   *)
(* had may be seen.                                                        *)

\* A search for the first node at or after target, or the last before it.
Starts(r, forward, target) ==
  /\ iter[r].pc = "idle"
  /\ \E h \in heights :
       iter' = [iter EXCEPT ![r] = [pc |-> "walk", node |-> Null, forward |-> forward,
                                    target |-> target, x |-> HeadNode, level |-> h - 1,
                                    had |-> Linked(0)]]
  /\ UNCHANGED <<next, heights, insert>>

\* A single load: SeekToFirst and Next.
Follows(r, n) ==
  /\ iter[r].pc = "idle"
  /\ iter' = [iter EXCEPT ![r].node = next[n][0], ![r].forward = TRUE, ![r].target = n + 1,
                          ![r].had = Linked(0)]
  /\ UNCHANGED <<next, heights, insert>>

Seek(r, k) == Starts(r, TRUE, k)
SeekToFirst(r) == Follows(r, HeadNode)
SeekToLast(r) == Starts(r, FALSE, Null)
IterNextNode(r) == iter[r].node \in ListKey /\ Follows(r, iter[r].node)
IterPrevNode(r) == iter[r].node \in ListKey /\ Starts(r, FALSE, iter[r].node)

Ends(w, node) == [w EXCEPT !.pc = "idle", !.node = node]

\* One round of FindGreaterOrEqual, FindLessThan or FindLast.
WalkStep(r) ==
  /\ iter[r].pc = "walk"
  /\ LET w == iter[r]
         n == next[w.x][w.level]
     IN  iter' = [iter EXCEPT ![r] =
           IF n = Junk THEN Ends(w, Junk)
           ELSE IF n < w.target THEN [w EXCEPT !.x = n]
           ELSE IF w.level > 0 THEN [w EXCEPT !.level = @ - 1]
           ELSE IF w.forward THEN Ends(w, n)
           ELSE Ends(w, IF w.x = HeadNode THEN Null ELSE w.x)]
  /\ UNCHANGED <<next, heights, insert>>

ListNext ==
  \/ \E k \in ListKey : InsertKey(k)
  \/ FindStep \/ GrowStep \/ LinkStep
  \/ \E r \in ListReader :
       \/ \E k \in ListKey : Seek(r, k)
       \/ SeekToFirst(r) \/ SeekToLast(r) \/ IterNextNode(r) \/ IterPrevNode(r) \/ WalkStep(r)

ListSpec == ListInit /\ [][ListNext]_listVars

---------------------------------------------------------------------------
(* Properties                                                              *)

\* A reader that overlaps an insertion ends at a node of the list, on the right
\* side of its target, and passes over no node that was in the list when its
\* search began; no pointer is read before it was stored.
SearchExact ==
  \A r \in ListReader :
    LET w == iter[r]
        at == IF w.forward \/ w.node # Null THEN w.node ELSE HeadNode
    IN  w.pc = "idle" =>
          /\ w.node \in Linked(0) \cup {Null}
          /\ IF w.forward THEN at >= w.target ELSE at < w.target
          /\ ~\E k \in w.had : IF w.forward THEN w.target <= k /\ k < at
                                            ELSE at < k /\ k < w.target

=============================================================================
