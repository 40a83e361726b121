------------------------------ MODULE MCParts ------------------------------
(***************************************************************************)
(* The tree of leveldb and its parts that share no state with it: each     *)
(* behaviour is one of one part, chosen at the start; with them the phone  *)
(* screens and the connection of Firebase Database.                        *)
(***************************************************************************)
EXTENDS Levels, Iterators, TableCache, SkipList, LogFormat, SortedTable, WriteQueue, PhoneLogin,
        PersistentConnection

VARIABLE part

MCUserKeys == {<<0>>, <<0, 2>>, <<1, 2>>, <<2, 2>>}

\* Three writes of one key, all in the first block.
OneKey == [ents |-> [i \in Entry |-> [key |-> 1, seq |-> IterWrites + 1 - i, del |-> FALSE]],
           mem |-> {}, blocks |-> <<Entry, {}>>, long |-> FALSE, snap |-> 1]

PartsInit ==
  /\ part \in {"levels", "iterators", "cache", "list", "log", "table", "queue", "phone",
              "database"}
  /\ IF part = "iterators" THEN IterInit ELSE IterRest(OneKey)
  /\ Init /\ CacheInit /\ ListInit /\ LogInit /\ TableInit /\ QueueInit /\ PhoneInit
  /\ ConnectionInit

PartsNext ==
  /\ UNCHANGED part
  /\ IF part = "levels" THEN Next ELSE UNCHANGED vars
  /\ IF part = "iterators" THEN IterNext ELSE UNCHANGED iterVars
  /\ IF part = "cache" THEN CacheNext ELSE UNCHANGED cacheVars
  /\ IF part = "list" THEN ListNext ELSE UNCHANGED listVars
  /\ IF part = "log" THEN LogNext ELSE UNCHANGED logVars
  /\ IF part = "table" THEN TableNext ELSE UNCHANGED tableVars
  /\ IF part = "queue" THEN QueueNext ELSE UNCHANGED queueVars
  /\ IF part = "phone" THEN PhoneNext ELSE UNCHANGED phoneVars
  /\ IF part = "database" THEN ConnectionNext ELSE UNCHANGED connectionVars

PartsSpec ==
  PartsInit /\ [][PartsNext]_<<part, vars, iterVars, cacheVars, listVars, logVars, tableVars,
                               queueVars, phoneVars, connectionVars>>
=============================================================================
