------------------------------- MODULE LinkStore -------------------------------
(***************************************************************************)
(* The link store, lib/hpsc/link-store.c: a list of links by name, shared  *)
(* by the task that connects links, the ones that look them up to send     *)
(* requests, and the one that shuts down and disconnects them.             *)
(*                                                                         *)
(* What is done with the mutex held is one step.  List nodes are cells of  *)
(* the heap; a cell keeps its content when it is freed and may be          *)
(* allocated again.                                                        *)
(***************************************************************************)
EXTENDS Naturals, Sequences, FiniteSets, SequencesExt

CONSTANTS Threads,
          Links, Name,  \* the links and their names; NONE is a NULL name
          Nodes,        \* cells malloc has for list nodes
          NONE          \* NULL

Names == {Name[l] : l \in Links}

ASSUME LinkAssumption == DOMAIN Name = Links /\ NONE \notin Links \cup Nodes
ASSUME NodeAssumption == IsFiniteSet(Nodes)

VARIABLES
  heap, used,   \* content of each cell; the cells allocated
  lchain,       \* the list: its cells in order
  life,         \* where each link is
  pc,           \* where each thread is
  key,          \* the name it looks up
  snode, lnk,   \* its local variables snode and link
  raced         \* threads during whose look-up or use another one extracts

vars == <<heap, used, lchain, life, pc, key, snode, lnk, raced>>

TypeOK ==
  /\ heap \in [Nodes -> Links \cup {NONE}] /\ used \subseteq Nodes
  /\ lchain \in Seq(Nodes)
  /\ life \in [Links -> {"new", "appending", "stored", "out", "freed", "leaked"}]
  /\ pc \in [Threads -> {"idle", "append", "get", "use", "first", "close"}]
  /\ key \in [Threads -> Names \cup {NONE}]
  /\ snode \in [Threads -> Nodes \cup {NONE}] /\ lnk \in [Threads -> Links \cup {NONE}]
  /\ raced \subseteq Threads

Init ==
  /\ heap = [n \in Nodes |-> NONE] /\ used = {}
  /\ lchain = << >>
  /\ life = [l \in Links |-> "new"]
  /\ pc = [t \in Threads |-> "idle"]
  /\ key = [t \in Threads |-> NONE]
  /\ snode = [t \in Threads |-> NONE] /\ lnk = [t \in Threads |-> NONE]
  /\ raced = {}

Go(t, from, to) == pc[t] = from /\ pc' = [pc EXCEPT ![t] = to]
Local(t, n, l) == snode' = [snode EXCEPT ![t] = n] /\ lnk' = [lnk EXCEPT ![t] = l]

(* Threads that have looked a link up and not finished with it. *)
Readers == {t \in Threads : pc[t] \in {"get", "use"}}

-------------------------------------------------------------------------------
(* The comparison of link_store_node_get, NULL names included. *)
Matches(name, l) == name = Name[l]

(* Fault: the last match. *)
NodeGetLast(name) ==
  LET S == {i \in DOMAIN lchain : Matches(name, heap[lchain[i]])}
  IN  IF S = {} THEN NONE ELSE lchain[CHOOSE i \in S : \A j \in S : j <= i]

link_store_node_get(name) ==
  LET S == {i \in DOMAIN lchain : Matches(name, heap[lchain[i]])}
  IN  IF S = {} THEN NONE ELSE lchain[CHOOSE i \in S : \A j \in S : i <= j]

link_store_contains(name) == link_store_node_get(name) # NONE

link_store_is_empty == lchain = << >>

(* rtems_chain_extract_unprotected (external): the cell leaves the chain,  *)
(* wherever it is.                                                         *)
Unlink(n) == RemoveAt(lchain, CHOOSE i \in DOMAIN lchain : lchain[i] = n)

(* link_store_append: a node is allocated and filled, ... *)
link_store_append(t, l) ==
  /\ Go(t, "idle", "append")
  /\ life[l] = "new"
  /\ \E n \in Nodes \ used :
       /\ used' = used \cup {n}
       /\ heap' = [heap EXCEPT ![n] = l]
       /\ Local(t, n, l)
  /\ life' = [life EXCEPT ![l] = "appending"]
  /\ UNCHANGED <<lchain, key, raced>>

(* ... or RTEMS_NO_MEMORY is returned, which init_client_links and         *)
(* init_server_links do not look at.                                       *)
AppendFails(l) ==
  /\ life[l] = "new"
  /\ used = Nodes
  /\ life' = [life EXCEPT ![l] = "leaked"]
  /\ UNCHANGED <<heap, used, lchain, pc, key, snode, lnk, raced>>

AppendNode(t) ==
  /\ Go(t, "append", "idle")
  /\ lchain' = Append(lchain, snode[t])
  /\ life' = [life EXCEPT ![lnk[t]] = "stored"]
  /\ Local(t, NONE, NONE)
  /\ UNCHANGED <<heap, used, key, raced>>

(* link_store_get: the node is found with the mutex held, ... *)
link_store_get(t, name) ==
  /\ link_store_contains(name)
  /\ Go(t, "idle", "get")
  /\ Local(t, link_store_node_get(name), NONE)
  /\ key' = [key EXCEPT ![t] = name]
  /\ UNCHANGED <<heap, used, lchain, life, raced>>

(* ... and read without it. *)
GetLink(t) ==
  /\ Go(t, "get", "use")
  /\ Local(t, snode[t], heap[snode[t]])
  /\ UNCHANGED <<heap, used, lchain, life, key, raced>>

(* The caller is done with the link (hpsc_test_link_ping has returned). *)
UseDone(t) ==
  /\ Go(t, "use", "idle")
  /\ Local(t, NONE, NONE)
  /\ key' = [key EXCEPT ![t] = NONE]
  /\ raced' = raced \ {t}
  /\ UNCHANGED <<heap, used, lchain, life>>

(* Fault: the node is not freed and returned in place of the link. *)
ExtractNode(t, name) ==
  LET n == link_store_node_get(name)
  IN  /\ link_store_contains(name)
      /\ Go(t, "idle", "close")
      /\ life' = [life EXCEPT ![heap[n]] = "out"]
      /\ lchain' = Unlink(n)
      /\ Local(t, NONE, n)
      /\ raced' = raced \cup (Readers \ {t})
      /\ UNCHANGED <<heap, used, key>>

link_store_extract(t, name) ==
  LET n == link_store_node_get(name)
  IN  /\ link_store_contains(name)
      /\ Go(t, "idle", "close")
      /\ life' = [life EXCEPT ![heap[n]] = "out"]
      /\ lchain' = Unlink(n)
      /\ used' = used \ {n}
      /\ Local(t, NONE, heap[n])
      /\ raced' = raced \cup (Readers \ {t})
      /\ UNCHANGED <<heap, key>>

(* link_store_extract_first: the node is taken with the mutex held, ... *)
link_store_extract_first(t) ==
  /\ ~link_store_is_empty
  /\ Go(t, "idle", "first")
  /\ life' = [life EXCEPT ![heap[Head(lchain)]] = "out"]
  /\ lchain' = Tail(lchain)
  /\ Local(t, Head(lchain), NONE)
  /\ raced' = raced \cup (Readers \ {t})
  /\ UNCHANGED <<heap, used, key>>

(* ... read and freed without it. *)
FreeFirst(t) ==
  /\ Go(t, "first", "close")
  /\ used' = used \ {snode[t]}
  /\ Local(t, NONE, heap[snode[t]])
  /\ UNCHANGED <<heap, lchain, life, key, raced>>

(* The loop of shutdown: the link that was extracted is disconnected. *)
Disconnect(t) ==
  /\ Go(t, "close", "idle")
  /\ life' = [life EXCEPT ![lnk[t]] = "freed"]
  /\ Local(t, NONE, NONE)
  /\ UNCHANGED <<heap, used, lchain, key, raced>>

-------------------------------------------------------------------------------
Thread(t) ==
  \/ \E l \in Links : link_store_append(t, l)
  \/ \E name \in Names : link_store_get(t, name) \/ link_store_extract(t, name)
  \/ link_store_extract_first(t)
  \/ AppendNode(t) \/ GetLink(t) \/ UseDone(t) \/ FreeFirst(t) \/ Disconnect(t)

(* Every link has been stored and extracted, or could not be stored. *)
Done == /\ \A l \in Links : life[l] \in {"freed", "leaked"}
        /\ UNCHANGED vars

Next == \/ \E t \in Threads : Thread(t)
        \/ \E l \in Links : AppendFails(l)
        \/ Done

Spec == Init /\ [][Next]_vars

-------------------------------------------------------------------------------
(* Properties. *)

(* The store implements the ordered list: a link leaves it once, the first *)
(* one or the first one of its name (link-store.h).                        *)
List == INSTANCE LinkList WITH
  list <- [i \in DOMAIN lchain |-> heap[lchain[i]]],
  gone <- {l \in Links : life[l] \in {"out", "freed"}}
ListSpec == List!Spec

(* Every cell that is allocated has one owner, the list or one thread: no  *)
(* node is leaked, freed twice or shared (malloc in link_store_append, free *)
(* in link_store_extract and, without the mutex, in                        *)
(* link_store_extract_first).                                              *)
NodesAccountedFor ==
  LET owned(t) == IF pc[t] \in {"append", "first"} THEN {snode[t]} ELSE {}
  IN  /\ used = ToSet(lchain) \cup UNION {owned(t) : t \in Threads}
      /\ Cardinality(used) = Len(lchain) + Cardinality({t \in Threads : owned(t) # {}})

(* A thread that looks up a link while nobody else extracts one gets the   *)
(* first link of that name, and the link stays there until it has done     *)
(* with it, although the node is read after the mutex is released: an      *)
(* append by another thread does no harm.                                  *)
GetIsStored ==
  \A t \in Readers \ raced : \E i \in DOMAIN lchain :
    /\ lchain[i] = snode[t]
    /\ Name[heap[snode[t]]] = key[t]
    /\ \A j \in 1..i-1 : Name[heap[lchain[j]]] # key[t]
    /\ pc[t] = "use" => lnk[t] = heap[snode[t]]
================================================================================
