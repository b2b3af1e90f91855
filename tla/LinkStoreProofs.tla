---------------------------- MODULE LinkStoreProofs ----------------------------
(***************************************************************************)
(* Proofs about LinkStore, for any number of threads, links, names and     *)
(* list nodes.                                                             *)
(***************************************************************************)
EXTENDS LinkStore, SequenceTheorems, FiniteSetTheorems, TLAPS

(* A thread owns the node it has allocated and not appended yet, or taken  *)
(* off the list and not freed yet, ...                                     *)
Owner(t) == pc[t] \in {"append", "first"}
(* ... and holds the link that it appends or disconnects. *)
Holding(t) == pc[t] \in {"append", "first", "close"}
Held(t) == IF pc[t] = "first" THEN heap[snode[t]] ELSE lnk[t]

Linked(n) == \E i \in DOMAIN lchain : lchain[i] = n

(* The nodes of the list are allocated, and hold different links that are  *)
(* stored.                                                                 *)
ChainInv ==
  /\ \A i \in DOMAIN lchain : /\ lchain[i] \in used
                              /\ heap[lchain[i]] \in Links
                              /\ life[heap[lchain[i]]] = "stored"
  /\ \A i, j \in DOMAIN lchain : heap[lchain[i]] = heap[lchain[j]] => i = j

(* A node that is allocated is linked or owned by one thread, not both. *)
OwnerInv ==
  /\ \A t \in Threads : Owner(t) => snode[t] \in used /\ ~Linked(snode[t])
  /\ \A t, u \in Threads : Owner(t) /\ Owner(u) /\ snode[t] = snode[u] => t = u
  /\ \A n \in used : Linked(n) \/ \E t \in Threads : Owner(t) /\ snode[t] = n

(* No link is held by two threads, and life says what its holder does. *)
HeldInv ==
  /\ \A t \in Threads : Holding(t) =>
       /\ Held(t) \in Links
       /\ life[Held(t)] = IF pc[t] = "append" THEN "appending" ELSE "out"
       /\ pc[t] = "append" => heap[snode[t]] = lnk[t]
  /\ \A t, u \in Threads : Holding(t) /\ Holding(u) /\ Held(t) = Held(u) => t = u

ReaderInv == \A t \in Readers : snode[t] \in Nodes

StoreInv == TypeOK /\ ChainInv /\ OwnerInv /\ HeldInv /\ ReaderInv

(* What remains of a sequence when an element is taken out. *)
LEMMA RemoveAtProperties ==
  ASSUME NEW S, NEW s \in Seq(S), NEW k \in 1..Len(s)
  PROVE  /\ RemoveAt(s, k) \in Seq(S)
         /\ Len(RemoveAt(s, k)) = Len(s) - 1
         /\ \A i \in 1..Len(s)-1 : RemoveAt(s, k)[i] = IF i < k THEN s[i] ELSE s[i+1]
<1> DEFINE a == SubSeq(s, 1, k-1)
           b == SubSeq(s, k+1, Len(s))
<1>0. Len(s) \in Nat /\ k \in Nat /\ \A i \in 1..Len(s) : s[i] \in S
  BY LenProperties, ElementOfSeq
<1>1. a \in Seq(S) /\ Len(a) = k - 1 /\ \A i \in 1..k-1 : a[i] = s[i]
  OBVIOUS
<1>2. b \in Seq(S) /\ Len(b) = Len(s) - k /\ \A i \in 1..Len(s)-k : b[i] = s[k+i]
  OBVIOUS
<1> HIDE DEF a, b
<1>3. /\ a \o b \in Seq(S)
      /\ Len(a \o b) = Len(s) - 1
      /\ \A i \in 1..Len(s)-1 : (a \o b)[i] = IF i < k THEN a[i] ELSE b[i - (k - 1)]
  BY <1>0, <1>1, <1>2, ConcatProperties
<1>4. \A i \in 1..Len(s)-1 : (a \o b)[i] = IF i < k THEN s[i] ELSE s[i+1]
  BY <1>0, <1>1, <1>2, <1>3
<1>5. RemoveAt(s, k) = a \o b
  BY DEF RemoveAt, a, b
<1> QED BY <1>3, <1>4, <1>5

(* The first of the nodes with a name is the least of a set of positions.  *)
LEMMA LeastNatural ==
  ASSUME NEW S \in SUBSET Nat, S # {}
  PROVE  \E x \in S : \A y \in S : x <= y
<1>1. PICK x \in S : \A y \in S : ~(<<y, x>> \in OpToRel(<, Nat))
  BY WFMin, NatLessThanWellFounded
<1>2. \A y \in S : ~(y < x)
  BY <1>1 DEF OpToRel
<1> QED BY <1>2

(* link_store_node_get finds the first node of that name. *)
LEMMA NodeGetFirst ==
  ASSUME TypeOK, NEW name, link_store_contains(name)
  PROVE  \E k \in 1..Len(lchain) :
           /\ link_store_node_get(name) = lchain[k]
           /\ Matches(name, heap[lchain[k]])
           /\ \A j \in 1..k-1 : ~Matches(name, heap[lchain[j]])
<1> DEFINE S == {i \in DOMAIN lchain : Matches(name, heap[lchain[i]])}
           k == CHOOSE i \in S : \A j \in S : i <= j
<1>0. DOMAIN lchain = 1..Len(lchain) /\ Len(lchain) \in Nat
  BY LenProperties DEF TypeOK
<1>1. S # {} /\ link_store_node_get(name) = lchain[k]
  BY DEF link_store_contains, link_store_node_get
<1>2. S \in SUBSET Nat
  BY <1>0
<1>3. \E i \in S : \A j \in S : i <= j
  <2> HIDE DEF S
  <2> QED BY <1>1, <1>2, LeastNatural
<1>4. k \in S /\ \A j \in S : k <= j
  BY <1>3
<1>5. ASSUME NEW j \in 1..k-1 PROVE ~Matches(name, heap[lchain[j]])
  <2>1. j \in DOMAIN lchain /\ ~(k <= j)
    BY <1>0, <1>4
  <2> QED BY <1>4, <2>1
<1> HIDE DEF k
<1> QED BY <1>0, <1>1, <1>4, <1>5

(* The chain when its k-th node has left it. *)
Shrinks(k) ==
  /\ lchain' \in Seq(Nodes)
  /\ Len(lchain') = Len(lchain) - 1
  /\ \A i \in 1..Len(lchain)-1 : lchain'[i] = IF i < k THEN lchain[i] ELSE lchain[i+1]

(* A chain of different nodes loses one of them, and no other. *)
LEMMA ShrinksByOne ==
  ASSUME TypeOK, ChainInv, NEW k \in 1..Len(lchain), Shrinks(k)
  PROVE  /\ \A i \in DOMAIN lchain' : \E j \in DOMAIN lchain :
              j # k /\ lchain'[i] = lchain[j] /\ j = IF i < k THEN i ELSE i + 1
         /\ \A n : Linked(n)' <=> Linked(n) /\ n # lchain[k]
<1>0. /\ DOMAIN lchain = 1..Len(lchain) /\ Len(lchain) \in Nat
      /\ DOMAIN lchain' = 1..Len(lchain)-1
  BY LenProperties DEF TypeOK, Shrinks
<1>1. ASSUME NEW i \in DOMAIN lchain'
      PROVE  \E j \in DOMAIN lchain :
               j # k /\ lchain'[i] = lchain[j] /\ j = IF i < k THEN i ELSE i + 1
  <2> DEFINE j == IF i < k THEN i ELSE i + 1
  <2>1. j \in DOMAIN lchain /\ j # k /\ lchain'[i] = lchain[j]
    BY <1>0 DEF Shrinks
  <2> QED BY <2>1
<1>2. ASSUME NEW n, Linked(n)' PROVE Linked(n) /\ n # lchain[k]
  BY <1>0, <1>1, <1>2 DEF Linked, ChainInv
<1>3. ASSUME NEW n, Linked(n), n # lchain[k] PROVE Linked(n)'
  <2>1. PICK j \in DOMAIN lchain : lchain[j] = n
    BY <1>3 DEF Linked
  <2>2. j # k
    BY <1>3, <2>1
  <2> DEFINE i == IF j < k THEN j ELSE j - 1
  <2>3. i \in DOMAIN lchain' /\ lchain'[i] = lchain[j]
    BY <1>0, <2>2 DEF Shrinks
  <2> QED BY <2>1, <2>3 DEF Linked
<1> QED BY <1>1, <1>2, <1>3

(* Extracting the node at a position shortens the chain by that node.      *)
LEMMA UnlinkShrinks ==
  ASSUME TypeOK, ChainInv, NEW k \in 1..Len(lchain), lchain' = Unlink(lchain[k])
  PROVE  Shrinks(k)
<1>0. DOMAIN lchain = 1..Len(lchain) /\ lchain \in Seq(Nodes)
  BY LenProperties DEF TypeOK
<1>1. (CHOOSE i \in DOMAIN lchain : lchain[i] = lchain[k]) = k
  BY <1>0 DEF ChainInv
<1>2. lchain' = RemoveAt(lchain, k)
  BY <1>1 DEF Unlink
<1> QED BY <1>0, <1>2, RemoveAtProperties DEF Shrinks

(* Extracting the first node is the same at position 1.                    *)
LEMMA TailShrinks ==
  ASSUME TypeOK, lchain # << >>, lchain' = Tail(lchain)
  PROVE  1 \in 1..Len(lchain) /\ Head(lchain) = lchain[1] /\ Shrinks(1)
<1>0. lchain \in Seq(Nodes) /\ Len(lchain) \in Nat \ {0}
  BY EmptySeq DEF TypeOK
<1>1. /\ Tail(lchain) \in Seq(Nodes) /\ Len(Tail(lchain)) = Len(lchain) - 1
      /\ \A i \in 1..Len(lchain)-1 : Tail(lchain)[i] = lchain[i+1]
  BY <1>0, HeadTailProperties
<1> QED BY <1>0, <1>1 DEF Shrinks

-------------------------------------------------------------------------------
(* Each operation preserves the invariant. *)
LEMMA AppendPreserves ==
  ASSUME StoreInv, NEW t \in Threads, NEW l \in Links, link_store_append(t, l)
  PROVE  StoreInv'
<1> USE DEF StoreInv
<1>1. PICK n \in Nodes \ used :
        /\ used' = used \cup {n}
        /\ heap' = [heap EXCEPT ![n] = l]
        /\ Local(t, n, l)
  BY DEF link_store_append
<1>2. /\ pc[t] = "idle" /\ pc' = [pc EXCEPT ![t] = "append"] /\ life[l] = "new"
      /\ life' = [life EXCEPT ![l] = "appending"]
      /\ UNCHANGED <<lchain, key, raced>>
  BY DEF link_store_append, Go
<1>3. /\ \A m \in Nodes : heap'[m] = IF m = n THEN l ELSE heap[m]
      /\ \A u \in Threads : /\ pc'[u] = IF u = t THEN "append" ELSE pc[u]
                            /\ snode'[u] = IF u = t THEN n ELSE snode[u]
                            /\ lnk'[u] = IF u = t THEN l ELSE lnk[u]
      /\ \A k \in Links : life'[k] = IF k = l THEN "appending" ELSE life[k]
  BY <1>1, <1>2 DEF TypeOK, Local
<1>4. TypeOK'
  BY <1>1, <1>2 DEF TypeOK, Local
<1>5. ChainInv'
  <2>1. \A i \in DOMAIN lchain : /\ lchain[i] \in used /\ lchain[i] \in Nodes
                                 /\ heap'[lchain[i]] = heap[lchain[i]]
                                 /\ heap[lchain[i]] # l
    BY <1>1, <1>2, <1>3 DEF ChainInv, TypeOK
  <2> QED BY <1>1, <1>2, <1>3, <2>1 DEF ChainInv
<1>6. OwnerInv'
  <2>1. \A m : Linked(m)' <=> Linked(m)
    BY <1>2 DEF Linked
  <2>2. ~Linked(n)
    BY <1>1 DEF Linked, ChainInv
  <2>3. \A u \in Threads : Owner(u)' <=> u = t \/ Owner(u)
    BY <1>3 DEF Owner
  <2>4. \A u \in Threads : Owner(u) => u # t
    BY <1>2 DEF Owner
  <2> QED BY <1>1, <1>3, <2>1, <2>2, <2>3, <2>4 DEF OwnerInv
<1>7. HeldInv'
  <2>1. \A u \in Threads : Holding(u)' <=> u = t \/ Holding(u)
    BY <1>3 DEF Holding
  <2>2. ASSUME NEW u \in Threads, u # t, Holding(u)
        PROVE  Held(u)' = Held(u) /\ Held(u) # l /\ (pc[u] = "append" => heap'[snode'[u]] = heap[snode[u]])
    <3>1. pc[u] \in {"append", "first"} => snode[u] \in used
      BY DEF OwnerInv, Owner
    <3>2. pc[u] \in {"append", "first"} => heap'[snode'[u]] = heap[snode[u]]
      BY <1>1, <1>3, <2>2, <3>1 DEF TypeOK
    <3>3. Held(u)' = Held(u)
      BY <1>3, <2>2, <3>2 DEF Held
    <3>4. Held(u) # l
      BY <1>2, <2>2 DEF HeldInv
    <3> QED BY <3>2, <3>3, <3>4
  <2>3. Held(t)' = l /\ heap'[snode'[t]] = lnk'[t] /\ pc'[t] = "append"
    BY <1>1, <1>3 DEF Held
  <2> QED BY <1>2, <1>3, <2>1, <2>2, <2>3 DEF HeldInv
<1>8. ReaderInv'
  BY <1>3 DEF ReaderInv, Readers
<1> QED BY <1>4, <1>5, <1>6, <1>7, <1>8

(* link_store_append, under the mutex.                                     *)
LEMMA AppendNodePreserves ==
  ASSUME StoreInv, NEW t \in Threads, AppendNode(t)
  PROVE  StoreInv'
<1> USE DEF StoreInv
<1>1. /\ pc[t] = "append" /\ pc' = [pc EXCEPT ![t] = "idle"]
      /\ lchain' = Append(lchain, snode[t])
      /\ life' = [life EXCEPT ![lnk[t]] = "stored"]
      /\ snode' = [snode EXCEPT ![t] = NONE] /\ lnk' = [lnk EXCEPT ![t] = NONE]
      /\ UNCHANGED <<heap, used, key, raced>>
  BY DEF AppendNode, Go, Local
<1>2. /\ snode[t] \in used /\ snode[t] \in Nodes /\ ~Linked(snode[t])
      /\ lnk[t] \in Links /\ life[lnk[t]] = "appending" /\ heap[snode[t]] = lnk[t]
  BY <1>1 DEF OwnerInv, HeldInv, Owner, Holding, Held, TypeOK
<1>3. /\ \A u \in Threads : /\ pc'[u] = IF u = t THEN "idle" ELSE pc[u]
                            /\ u # t => snode'[u] = snode[u] /\ lnk'[u] = lnk[u]
      /\ \A k \in Links : life'[k] = IF k = lnk[t] THEN "stored" ELSE life[k]
  BY <1>1 DEF TypeOK
<1>4. /\ lchain \in Seq(Nodes) /\ DOMAIN lchain = 1..Len(lchain) /\ Len(lchain) \in Nat
      /\ lchain' \in Seq(Nodes) /\ DOMAIN lchain' = 1..Len(lchain)+1
      /\ \A i \in 1..Len(lchain) : lchain'[i] = lchain[i]
      /\ lchain'[Len(lchain)+1] = snode[t]
  BY <1>1, <1>2, LenProperties, AppendProperties DEF TypeOK
<1>5. TypeOK'
  BY <1>1, <1>2, <1>4 DEF TypeOK
<1>6. ChainInv'
  <2>1. \A i \in 1..Len(lchain) : heap[lchain[i]] # lnk[t]
    BY <1>2, <1>4 DEF ChainInv
  <2>2. \A i \in DOMAIN lchain' : /\ lchain'[i] \in used /\ heap[lchain'[i]] \in Links
                                  /\ life'[heap[lchain'[i]]] = "stored"
    BY <1>2, <1>3, <1>4, <2>1 DEF ChainInv
  <2>3. \A i, j \in DOMAIN lchain' : heap[lchain'[i]] = heap[lchain'[j]] => i = j
    BY <1>2, <1>4, <2>1 DEF ChainInv
  <2> QED BY <1>1, <2>2, <2>3 DEF ChainInv
<1>7. \A m : Linked(m)' <=> Linked(m) \/ m = snode[t]
  BY <1>4 DEF Linked
<1>8. OwnerInv'
  <2>1. \A u \in Threads : Owner(u)' <=> u # t /\ Owner(u)
    BY <1>3 DEF Owner
  <2>2. Owner(t)
    BY <1>1 DEF Owner
  <2> QED BY <1>1, <1>2, <1>3, <1>7, <2>1, <2>2 DEF OwnerInv
<1>9. HeldInv'
  <2>1. \A u \in Threads : Holding(u)' <=> u # t /\ Holding(u)
    BY <1>3 DEF Holding
  <2>2. Holding(t) /\ Held(t) = lnk[t]
    BY <1>1 DEF Holding, Held
  <2>3. \A u \in Threads : u # t => Held(u)' = Held(u) /\ pc'[u] = pc[u]
    BY <1>1, <1>3 DEF Held
  <2>4. \A u \in Threads : u # t /\ Holding(u) => Held(u) # lnk[t]
    BY <2>2 DEF HeldInv
  <2> QED BY <1>1, <1>3, <2>1, <2>3, <2>4 DEF HeldInv
<1>10. ReaderInv'
  BY <1>3 DEF ReaderInv, Readers
<1> QED BY <1>5, <1>6, <1>8, <1>9, <1>10

(* The two ways out of the list: the node is freed at once                 *)
(* (link_store_extract) or kept by the thread (link_store_extract_first).  *)
LEMMA ExtractPreserves ==
  ASSUME StoreInv, NEW t \in Threads, NEW name, link_store_extract(t, name)
  PROVE  StoreInv'
<1> USE DEF StoreInv
<1>1. PICK k \in 1..Len(lchain) : link_store_node_get(name) = lchain[k]
  BY NodeGetFirst DEF link_store_extract
<1> DEFINE n == lchain[k]
<1>2. /\ pc[t] = "idle" /\ pc' = [pc EXCEPT ![t] = "close"]
      /\ life' = [life EXCEPT ![heap[n]] = "out"]
      /\ lchain' = Unlink(n)
      /\ used' = used \ {n}
      /\ snode' = [snode EXCEPT ![t] = NONE] /\ lnk' = [lnk EXCEPT ![t] = heap[n]]
      /\ raced' = raced \cup (Readers \ {t})
      /\ UNCHANGED <<heap, key>>
  BY <1>1 DEF link_store_extract, Go, Local
<1>3. DOMAIN lchain = 1..Len(lchain) /\ Len(lchain) \in Nat /\ \A i \in DOMAIN lchain : lchain[i] \in Nodes
  BY LenProperties, ElementOfSeq DEF TypeOK
<1>4. /\ n \in Nodes /\ n \in used /\ Linked(n)
      /\ heap[n] \in Links /\ life[heap[n]] = "stored"
  BY <1>3 DEF ChainInv, Linked
<1>5. Shrinks(k)
  BY <1>2, UnlinkShrinks
<1> HIDE DEF n
<1>6. /\ \A u \in Threads : /\ pc'[u] = IF u = t THEN "close" ELSE pc[u]
                            /\ u # t => snode'[u] = snode[u]
                            /\ lnk'[u] = IF u = t THEN heap[n] ELSE lnk[u]
      /\ \A m \in Links : life'[m] = IF m = heap[n] THEN "out" ELSE life[m]
  BY <1>2 DEF TypeOK
<1>7. TypeOK'
  BY <1>2, <1>4, <1>5 DEF TypeOK, Shrinks, Readers
<1>8. /\ \A i \in DOMAIN lchain' : \E j \in DOMAIN lchain :
           j # k /\ lchain'[i] = lchain[j] /\ j = IF i < k THEN i ELSE i + 1
      /\ \A m : Linked(m)' <=> Linked(m) /\ m # n
  BY <1>5, ShrinksByOne DEF n
<1>9. DOMAIN lchain' = 1..Len(lchain)-1
  BY <1>5, LenProperties DEF Shrinks
<1>10. ChainInv'
  <2>1. \A j \in DOMAIN lchain : j # k => heap[lchain[j]] # heap[n] /\ lchain[j] # n
    BY <1>3 DEF ChainInv, n
  <2>2. \A i \in DOMAIN lchain' : /\ lchain'[i] \in used' /\ heap[lchain'[i]] \in Links
                                  /\ life'[heap[lchain'[i]]] = "stored"
    BY <1>2, <1>6, <1>8, <2>1 DEF ChainInv
  <2>3. \A i, j \in DOMAIN lchain' : heap[lchain'[i]] = heap[lchain'[j]] => i = j
    BY <1>3, <1>8, <1>9 DEF ChainInv
  <2> QED BY <1>2, <2>2, <2>3 DEF ChainInv
<1>11. OwnerInv'
  <2>1. \A u \in Threads : Owner(u)' <=> Owner(u)
    BY <1>2, <1>6 DEF Owner
  <2>2. ~Owner(t) /\ \A u \in Threads : Owner(u) => snode[u] # n
    BY <1>2, <1>4 DEF Owner, OwnerInv
  <2> QED BY <1>2, <1>6, <1>8, <2>1, <2>2 DEF OwnerInv
<1>12. HeldInv'
  <2>1. \A u \in Threads : Holding(u)' <=> u = t \/ Holding(u)
    BY <1>6 DEF Holding
  <2>2. \A u \in Threads : u # t => Held(u)' = Held(u) /\ pc'[u] = pc[u]
    BY <1>2, <1>6 DEF Held
  <2>3. Held(t)' = heap[n] /\ pc'[t] = "close"
    BY <1>6 DEF Held
  <2>4. \A u \in Threads : u # t /\ Holding(u) => Held(u) # heap[n]
    BY <1>4 DEF HeldInv
  <2> QED BY <1>2, <1>4, <1>6, <2>1, <2>2, <2>3, <2>4 DEF HeldInv
<1>13. ReaderInv'
  BY <1>6 DEF ReaderInv, Readers
<1> QED BY <1>7, <1>10, <1>11, <1>12, <1>13

(* link_store_extract_first, under the mutex.                              *)
LEMMA ExtractFirstPreserves ==
  ASSUME StoreInv, NEW t \in Threads, link_store_extract_first(t)
  PROVE  StoreInv'
<1> USE DEF StoreInv
<1>1. 1 \in 1..Len(lchain) /\ Head(lchain) = lchain[1] /\ Shrinks(1)
  BY TailShrinks DEF link_store_extract_first, link_store_is_empty
<1> DEFINE n == lchain[1]
<1>2. /\ pc[t] = "idle" /\ pc' = [pc EXCEPT ![t] = "first"]
      /\ life' = [life EXCEPT ![heap[n]] = "out"]
      /\ snode' = [snode EXCEPT ![t] = n] /\ lnk' = [lnk EXCEPT ![t] = NONE]
      /\ raced' = raced \cup (Readers \ {t})
      /\ UNCHANGED <<heap, used, key>>
  BY <1>1 DEF link_store_extract_first, Go, Local
<1>3. DOMAIN lchain = 1..Len(lchain) /\ Len(lchain) \in Nat /\ \A i \in DOMAIN lchain : lchain[i] \in Nodes
  BY LenProperties, ElementOfSeq DEF TypeOK
<1>4. /\ n \in Nodes /\ n \in used /\ Linked(n)
      /\ heap[n] \in Links /\ life[heap[n]] = "stored"
  BY <1>1, <1>3 DEF ChainInv, Linked
<1> HIDE DEF n
<1>6. /\ \A u \in Threads : /\ pc'[u] = IF u = t THEN "first" ELSE pc[u]
                            /\ snode'[u] = IF u = t THEN n ELSE snode[u]
                            /\ u # t => lnk'[u] = lnk[u]
      /\ \A m \in Links : life'[m] = IF m = heap[n] THEN "out" ELSE life[m]
  BY <1>2 DEF TypeOK
<1>7. TypeOK'
  BY <1>1, <1>2, <1>4 DEF TypeOK, Shrinks, Readers
<1>8. /\ \A i \in DOMAIN lchain' : \E j \in DOMAIN lchain :
           j # 1 /\ lchain'[i] = lchain[j] /\ j = IF i < 1 THEN i ELSE i + 1
      /\ \A m : Linked(m)' <=> Linked(m) /\ m # n
  BY <1>1, ShrinksByOne DEF n
<1>9. DOMAIN lchain' = 1..Len(lchain)-1
  BY <1>1, LenProperties DEF Shrinks
<1>10. ChainInv'
  <2>1. \A j \in DOMAIN lchain : j # 1 => heap[lchain[j]] # heap[n] /\ lchain[j] # n
    BY <1>1, <1>3 DEF ChainInv, n
  <2>2. \A i \in DOMAIN lchain' : /\ lchain'[i] \in used' /\ heap[lchain'[i]] \in Links
                                  /\ life'[heap[lchain'[i]]] = "stored"
    BY <1>2, <1>6, <1>8, <2>1 DEF ChainInv
  <2>3. \A i, j \in DOMAIN lchain' : heap[lchain'[i]] = heap[lchain'[j]] => i = j
    BY <1>3, <1>8, <1>9 DEF ChainInv
  <2> QED BY <1>2, <2>2, <2>3 DEF ChainInv
<1>11. OwnerInv'
  <2>1. \A u \in Threads : Owner(u)' <=> u = t \/ Owner(u)
    BY <1>2, <1>6 DEF Owner
  <2>2. ~Owner(t) /\ \A u \in Threads : Owner(u) => snode[u] # n
    BY <1>2, <1>4 DEF Owner, OwnerInv
  <2>3. /\ \A u \in Threads : (Owner(u) => snode[u] \in used /\ ~Linked(snode[u]))'
        /\ \A u, v \in Threads : Owner(u)' /\ Owner(v)' /\ snode'[u] = snode'[v] => u = v
    BY <1>2, <1>4, <1>6, <1>8, <2>1, <2>2 DEF OwnerInv
  <2>4. \A m \in used' : Linked(m)' \/ \E u \in Threads : Owner(u)' /\ snode'[u] = m
    BY <1>2, <1>4, <1>6, <1>8, <2>1, <2>2 DEF OwnerInv
  <2> QED BY <2>3, <2>4 DEF OwnerInv
<1>12. HeldInv'
  <2>1. \A u \in Threads : Holding(u)' <=> u = t \/ Holding(u)
    BY <1>6 DEF Holding
  <2>2. \A u \in Threads : u # t => Held(u)' = Held(u) /\ pc'[u] = pc[u]
    BY <1>2, <1>6 DEF Held
  <2>3. Held(t)' = heap[n] /\ pc'[t] = "first"
    BY <1>2, <1>6 DEF Held
  <2>4. \A u \in Threads : u # t /\ Holding(u) => Held(u) # heap[n]
    BY <1>4 DEF HeldInv
  <2> QED BY <1>2, <1>4, <1>6, <2>1, <2>2, <2>3, <2>4 DEF HeldInv
<1>13. ReaderInv'
  BY <1>6 DEF ReaderInv, Readers
<1> QED BY <1>7, <1>10, <1>11, <1>12, <1>13

(* link_store_extract_first, after the mutex: the node is freed.           *)
LEMMA FreeFirstPreserves ==
  ASSUME StoreInv, NEW t \in Threads, FreeFirst(t)
  PROVE  StoreInv'
<1> USE DEF StoreInv
<1>1. /\ pc[t] = "first" /\ pc' = [pc EXCEPT ![t] = "close"]
      /\ used' = used \ {snode[t]}
      /\ snode' = [snode EXCEPT ![t] = NONE] /\ lnk' = [lnk EXCEPT ![t] = heap[snode[t]]]
      /\ UNCHANGED <<heap, lchain, life, key, raced>>
  BY DEF FreeFirst, Go, Local
<1>2. Owner(t) /\ Holding(t) /\ Held(t) = heap[snode[t]]
  BY <1>1 DEF Owner, Holding, Held
<1>3. /\ \A u \in Threads : /\ pc'[u] = IF u = t THEN "close" ELSE pc[u]
                            /\ u # t => snode'[u] = snode[u]
                            /\ lnk'[u] = IF u = t THEN heap[snode[t]] ELSE lnk[u]
  BY <1>1 DEF TypeOK
<1>4. TypeOK'
  BY <1>1, <1>2 DEF TypeOK, HeldInv
<1>5. ChainInv'
  BY <1>1, <1>2 DEF ChainInv, OwnerInv, Linked
<1>6. OwnerInv'
  <2>1. \A m : Linked(m)' <=> Linked(m)
    BY <1>1 DEF Linked
  <2>2. \A u \in Threads : Owner(u)' <=> u # t /\ Owner(u)
    BY <1>3 DEF Owner
  <2> QED BY <1>1, <1>2, <1>3, <2>1, <2>2 DEF OwnerInv
<1>7. HeldInv'
  <2>1. \A u \in Threads : (Holding(u)' <=> Holding(u)) /\ Held(u)' = Held(u)
    BY <1>1, <1>2, <1>3 DEF Holding, Held
  <2> QED BY <1>1, <1>3, <2>1 DEF HeldInv
<1>8. ReaderInv'
  BY <1>3 DEF ReaderInv, Readers
<1> QED BY <1>4, <1>5, <1>6, <1>7, <1>8

(* link_disconnect of the link that was extracted.                         *)
LEMMA DisconnectPreserves ==
  ASSUME StoreInv, NEW t \in Threads, Disconnect(t)
  PROVE  StoreInv'
<1> USE DEF StoreInv
<1>1. /\ pc[t] = "close" /\ pc' = [pc EXCEPT ![t] = "idle"]
      /\ life' = [life EXCEPT ![lnk[t]] = "freed"]
      /\ snode' = [snode EXCEPT ![t] = NONE] /\ lnk' = [lnk EXCEPT ![t] = NONE]
      /\ UNCHANGED <<heap, used, lchain, key, raced>>
  BY DEF Disconnect, Go, Local
<1>2. Holding(t) /\ Held(t) = lnk[t] /\ lnk[t] \in Links /\ life[lnk[t]] = "out"
  BY <1>1 DEF Holding, Held, HeldInv
<1>3. /\ \A u \in Threads : /\ pc'[u] = IF u = t THEN "idle" ELSE pc[u]
                            /\ u # t => snode'[u] = snode[u] /\ lnk'[u] = lnk[u]
      /\ \A m \in Links : life'[m] = IF m = lnk[t] THEN "freed" ELSE life[m]
  BY <1>1 DEF TypeOK
<1>4. TypeOK'
  BY <1>1 DEF TypeOK
<1>5. ChainInv'
  BY <1>1, <1>2, <1>3 DEF ChainInv
<1>6. OwnerInv'
  <2>1. \A m : Linked(m)' <=> Linked(m)
    BY <1>1 DEF Linked
  <2>2. \A u \in Threads : (Owner(u)' <=> Owner(u)) /\ (Owner(u) => u # t)
    BY <1>1, <1>3 DEF Owner
  <2> QED BY <1>1, <1>3, <2>1, <2>2 DEF OwnerInv
<1>7. HeldInv'
  <2>1. \A u \in Threads : Holding(u)' <=> u # t /\ Holding(u)
    BY <1>3 DEF Holding
  <2>2. \A u \in Threads : u # t => Held(u)' = Held(u) /\ pc'[u] = pc[u]
    BY <1>1, <1>3 DEF Held
  <2>3. \A u \in Threads : u # t /\ Holding(u) => Held(u) # lnk[t]
    BY <1>2 DEF HeldInv
  <2> QED BY <1>1, <1>3, <2>1, <2>2, <2>3 DEF HeldInv
<1>8. ReaderInv'
  BY <1>3 DEF ReaderInv, Readers
<1> QED BY <1>4, <1>5, <1>6, <1>7, <1>8

(* The steps that leave the list, its nodes and the holders alone. *)
LEMMA ReadPreserves ==
  ASSUME StoreInv, NEW t \in Threads,
         \/ \E name \in Names : link_store_get(t, name)
         \/ GetLink(t)
         \/ UseDone(t)
  PROVE  StoreInv'
<1> USE DEF StoreInv
<1>1. /\ UNCHANGED <<heap, used, lchain, life>>
      /\ pc[t] \in {"idle", "get", "use"}
      /\ \A u \in Threads : u # t => pc'[u] = pc[u] /\ snode'[u] = snode[u] /\ lnk'[u] = lnk[u]
      /\ pc'[t] \in {"idle", "get", "use"}
  BY DEF link_store_get, GetLink, UseDone, Go, Local, TypeOK
<1>2. TypeOK' /\ ReaderInv'
  <2>1. ASSUME NEW name \in Names, link_store_get(t, name) PROVE TypeOK' /\ ReaderInv'
    <3>1. link_store_node_get(name) \in Nodes
      BY <2>1, NodeGetFirst, ElementOfSeq DEF link_store_get, TypeOK
    <3> QED BY <2>1, <3>1 DEF link_store_get, Go, Local, TypeOK, ReaderInv, Readers
  <2>2. CASE GetLink(t)
    <3>1. snode[t] \in Nodes
      BY <2>2 DEF GetLink, Go, ReaderInv, Readers
    <3> QED BY <2>2, <3>1 DEF GetLink, Go, Local, TypeOK, ReaderInv, Readers
  <2>3. CASE UseDone(t)
    BY <2>3 DEF UseDone, Go, Local, TypeOK, ReaderInv, Readers
  <2> QED BY <2>1, <2>2, <2>3
<1>3. ChainInv'
  BY <1>1 DEF ChainInv
<1>4. OwnerInv'
  <2>1. \A m : Linked(m)' <=> Linked(m)
    BY <1>1 DEF Linked
  <2>2. \A u \in Threads : (Owner(u)' <=> Owner(u)) /\ (Owner(u) => u # t)
    BY <1>1 DEF Owner
  <2> QED BY <1>1, <2>1, <2>2 DEF OwnerInv
<1>5. HeldInv'
  <2>1. \A u \in Threads : (Holding(u)' <=> Holding(u)) /\ (Holding(u) => u # t)
    BY <1>1 DEF Holding
  <2>2. \A u \in Threads : u # t => Held(u)' = Held(u) /\ pc'[u] = pc[u]
    BY <1>1 DEF Held
  <2> QED BY <1>1, <2>1, <2>2 DEF HeldInv
<1> QED BY <1>2, <1>3, <1>4, <1>5

(* link_store_append without memory for a node.                            *)
LEMMA FailPreserves ==
  ASSUME StoreInv, NEW l \in Links, AppendFails(l)
  PROVE  StoreInv'
<1> USE DEF StoreInv
<1>1. /\ life[l] = "new" /\ life' = [life EXCEPT ![l] = "leaked"]
      /\ UNCHANGED <<heap, used, lchain, pc, key, snode, lnk, raced>>
  BY DEF AppendFails
<1>2. \A m \in Links : m # l => life'[m] = life[m]
  BY <1>1 DEF TypeOK
<1>3. TypeOK' /\ ReaderInv'
  BY <1>1 DEF TypeOK, ReaderInv, Readers
<1>4. ChainInv'
  BY <1>1, <1>2 DEF ChainInv
<1>5. OwnerInv'
  BY <1>1 DEF OwnerInv, Owner, Linked
<1>6. HeldInv'
  <2>1. \A u \in Threads : (Holding(u)' <=> Holding(u)) /\ Held(u)' = Held(u)
    BY <1>1 DEF Holding, Held
  <2> QED BY <1>1, <1>2, <2>1 DEF HeldInv
<1> QED BY <1>3, <1>4, <1>5, <1>6

(* The invariant of the link store: type correctness, and who owns which   *)
(* node and which link at every moment.                                    *)
THEOREM StoreCorrect == Spec => []StoreInv
<1>1. Init => StoreInv
  <2> SUFFICES ASSUME Init PROVE StoreInv
    OBVIOUS
  <2>1. lchain = << >> /\ DOMAIN lchain = {} /\ lchain \in Seq(Nodes) /\ used = {}
    BY EmptySeq, LenProperties DEF Init
  <2>2. \A t \in Threads : pc[t] = "idle"
    BY DEF Init
  <2>3. TypeOK
    BY <2>1 DEF Init, TypeOK
  <2> QED
    BY <2>1, <2>2, <2>3 DEF StoreInv, ChainInv, OwnerInv, HeldInv, ReaderInv, Readers,
                            Owner, Holding, Linked
<1>2. StoreInv /\ [Next]_vars => StoreInv'
  <2> SUFFICES ASSUME StoreInv, [Next]_vars PROVE StoreInv'
    OBVIOUS
  <2>1. ASSUME NEW t \in Threads, Thread(t) PROVE StoreInv'
    BY <2>1, AppendPreserves, AppendNodePreserves, ReadPreserves, ExtractPreserves,
       ExtractFirstPreserves, FreeFirstPreserves, DisconnectPreserves DEF Thread
  <2>2. CASE UNCHANGED vars
    BY <2>2 DEF vars, StoreInv, TypeOK, ChainInv, OwnerInv, HeldInv, ReaderInv, Readers,
                Owner, Holding, Held, Linked
  <2> QED BY <2>1, <2>2, FailPreserves DEF Next, Done
<1> QED BY <1>1, <1>2, PTL DEF Spec

-------------------------------------------------------------------------------
(* Every node that is allocated has exactly one owner: none is leaked,     *)
(* freed twice or shared, although link_store_extract_first reads and      *)
(* frees its node after the mutex is released.                             *)
THEOREM NodesOwned == Spec => []NodesAccountedFor
<1>1. ASSUME StoreInv PROVE NodesAccountedFor
  <2> USE <1>1 DEF StoreInv
  <2> DEFINE owned(t) == IF pc[t] \in {"append", "first"} THEN {snode[t]} ELSE {}
             owners == {t \in Threads : owned(t) # {}}
             chain == ToSet(lchain)
             private == UNION {owned(t) : t \in Threads}
  <2>0. DOMAIN lchain = 1..Len(lchain) /\ Len(lchain) \in Nat
    BY LenProperties DEF TypeOK
  <2>1. owners = {t \in Threads : Owner(t)} /\ private = {snode[t] : t \in owners}
    BY DEF Owner
  <2>2. chain = {n \in used : Linked(n)}
    BY DEF ToSet, Linked, ChainInv
  <2>3. used = chain \cup private
    BY <2>1, <2>2 DEF OwnerInv
  <2>4. chain \cap private = {}
    BY <2>1, <2>2 DEF OwnerInv
  <2>5. IsFiniteSet(chain) /\ Cardinality(chain) = Len(lchain)
    <3>1. lchain \in Bijection(1..Len(lchain), chain)
      <4>1. lchain \in [1..Len(lchain) -> chain] /\ \A n \in chain : \E i \in 1..Len(lchain) : lchain[i] = n
        BY <2>0, LenProperties DEF TypeOK, ToSet
      <4>2. \A i, j \in 1..Len(lchain) : lchain[i] = lchain[j] => i = j
        BY <2>0 DEF ChainInv
      <4> HIDE DEF chain
      <4> QED BY <2>0, <4>1, <4>2 DEF Bijection, Injection, Surjection, IsInjective
    <3>2. IsFiniteSet(1..Len(lchain)) /\ Cardinality(1..Len(lchain)) = Len(lchain)
      <4>1. /\ IsFiniteSet(1..Len(lchain))
            /\ Cardinality(1..Len(lchain)) = IF 1 > Len(lchain) THEN 0 ELSE Len(lchain) - 1 + 1
        BY <2>0, FS_Interval, SMT
      <4> QED BY <2>0, <4>1
    <3> QED BY <3>1, <3>2, FS_Bijection DEF ExistsBijection
  <2>6. IsFiniteSet(owners) /\ IsFiniteSet(private) /\ Cardinality(private) = Cardinality(owners)
    <3> DEFINE f == [t \in owners |-> snode[t]]
    <3>1. f \in Bijection(owners, private)
      BY <2>1 DEF OwnerInv, Bijection, Injection, Surjection, IsInjective
    <3>2. IsFiniteSet(private)
      BY <2>3, NodeAssumption, FS_Subset DEF TypeOK
    <3> HIDE DEF f, owners, private
    <3>3. IsFiniteSet(owners)
      BY <3>1, <3>2, FS_Injection DEF Bijection
    <3> QED BY <3>1, <3>2, <3>3, FS_Bijection DEF ExistsBijection
  <2>7. Cardinality(used) = Len(lchain) + Cardinality(owners)
    <3> HIDE DEF chain, private, owners
    <3>1. Cardinality(chain \cup private) =
            Cardinality(chain) + Cardinality(private) - Cardinality(chain \cap private)
      BY <2>5, <2>6, FS_Union
    <3>2. Cardinality(chain \cap private) = 0 /\ Cardinality(owners) \in Nat
      BY <2>4, <2>6, FS_EmptySet, FS_CardinalityType
    <3> QED BY <2>0, <2>3, <2>5, <2>6, <3>1, <3>2
  <2> QED BY <2>3, <2>7 DEF NodesAccountedFor
<1> QED BY <1>1, StoreCorrect, PTL

(* The position that GetIsStored speaks of. *)
FoundAt(t, i) ==
  /\ lchain[i] = snode[t]
  /\ Name[heap[snode[t]]] = key[t]
  /\ \A j \in 1..i-1 : Name[heap[lchain[j]]] # key[t]
  /\ pc[t] = "use" => lnk[t] = heap[snode[t]]

(* A look-up that no extraction overlaps returns the first link of that    *)
(* name, and the link stays in its place until the caller has done with    *)
(* it, whatever is appended meanwhile.                                     *)
THEOREM LookupStable == Spec => []GetIsStored
<1> USE DEF FoundAt
<1>1. Init => GetIsStored
  BY DEF Init, GetIsStored, Readers
<1>2. ASSUME StoreInv, StoreInv', GetIsStored, [Next]_vars PROVE GetIsStored'
  <2> USE <1>2 DEF StoreInv
  <2>0. DOMAIN lchain = 1..Len(lchain) /\ Len(lchain) \in Nat
    BY LenProperties DEF TypeOK
  <2>g. \A t \in Readers \ raced : \E i \in DOMAIN lchain : FoundAt(t, i)
    BY DEF GetIsStored
  <2>s. SUFFICES \A t \in (Readers \ raced)' : \E i \in DOMAIN lchain' : FoundAt(t, i)'
    BY DEF GetIsStored
  (* Steps of others that leave the list, and of the reader itself. *)
  <2>f. ASSUME NEW u \in Readers \ raced,
               UNCHANGED <<pc[u], snode[u], lnk[u], key[u]>>,
               DOMAIN lchain \subseteq DOMAIN lchain',
               \A i \in DOMAIN lchain : lchain'[i] = lchain[i] /\ heap'[lchain[i]] = heap[lchain[i]]
        PROVE  \E i \in DOMAIN lchain' : FoundAt(u, i)'
    <3>1. PICK i \in DOMAIN lchain : FoundAt(u, i)
      BY <2>g
    <3>2. FoundAt(u, i)'
      <4>1. /\ lchain'[i] = snode'[u] /\ heap'[snode'[u]] = heap[snode[u]]
            /\ \A j \in 1..i-1 : heap'[lchain'[j]] = heap[lchain[j]]
        BY <2>0, <2>f, <3>1
      <4> QED BY <2>f, <3>1, <4>1
    <3> QED BY <2>f, <3>2
  <2>1. ASSUME NEW t \in Threads, NEW l \in Links, link_store_append(t, l)
        PROVE  \A u \in (Readers \ raced)' : \E i \in DOMAIN lchain' : FoundAt(u, i)'
    <3>1. /\ lchain' = lchain /\ raced' = raced
          /\ \A i \in DOMAIN lchain : heap'[lchain[i]] = heap[lchain[i]]
      BY <2>1 DEF link_store_append, ChainInv, TypeOK
    <3>2. ASSUME NEW u \in (Readers \ raced)'
          PROVE  u \in Readers \ raced /\ UNCHANGED <<pc[u], snode[u], lnk[u], key[u]>>
      BY <2>1 DEF link_store_append, Go, Local, Readers, TypeOK
    <3> QED BY <2>f, <3>1, <3>2
  <2>2. ASSUME NEW t \in Threads, AppendNode(t)
        PROVE  \A u \in (Readers \ raced)' : \E i \in DOMAIN lchain' : FoundAt(u, i)'
    <3>1. /\ heap' = heap /\ raced' = raced /\ lchain' = Append(lchain, snode[t])
          /\ snode[t] \in Nodes
      BY <2>2 DEF AppendNode, Go, OwnerInv, Owner, TypeOK
    <3>2. /\ DOMAIN lchain \subseteq DOMAIN lchain'
          /\ \A i \in DOMAIN lchain : lchain'[i] = lchain[i]
      BY <2>0, <3>1, AppendProperties, LenProperties DEF TypeOK
    <3>3. ASSUME NEW u \in (Readers \ raced)'
          PROVE  u \in Readers \ raced /\ UNCHANGED <<pc[u], snode[u], lnk[u], key[u]>>
      BY <2>2 DEF AppendNode, Go, Local, Readers, TypeOK
    <3>4. \A i \in DOMAIN lchain : heap'[lchain[i]] = heap[lchain[i]]
      BY <3>1
    <3> HIDE DEF FoundAt
    <3> QED BY <2>f, <3>2, <3>3, <3>4
  <2>3. ASSUME NEW t \in Threads, NEW name \in Names, link_store_get(t, name)
        PROVE  \A u \in (Readers \ raced)' : \E i \in DOMAIN lchain' : FoundAt(u, i)'
    <3>1. heap' = heap /\ raced' = raced /\ lchain' = lchain
      BY <2>3 DEF link_store_get
    <3>2. ASSUME NEW u \in (Readers \ raced)', u # t
          PROVE  u \in Readers \ raced /\ UNCHANGED <<pc[u], snode[u], lnk[u], key[u]>>
      BY <2>3, <3>2 DEF link_store_get, Go, Local, Readers, TypeOK
    <3>3. \E i \in DOMAIN lchain' : FoundAt(t, i)'
      <4>1. PICK k \in 1..Len(lchain) :
              /\ link_store_node_get(name) = lchain[k]
              /\ Matches(name, heap[lchain[k]])
              /\ \A j \in 1..k-1 : ~Matches(name, heap[lchain[j]])
        BY <2>3, NodeGetFirst DEF link_store_get
      <4>2. snode'[t] = lchain[k] /\ key'[t] = name /\ pc'[t] = "get"
        BY <2>3, <4>1 DEF link_store_get, Go, Local, TypeOK
      <4> QED BY <2>0, <3>1, <4>1, <4>2 DEF Matches
    <3> QED BY <2>f, <3>1, <3>2, <3>3
  <2>4. ASSUME NEW t \in Threads, GetLink(t)
        PROVE  \A u \in (Readers \ raced)' : \E i \in DOMAIN lchain' : FoundAt(u, i)'
    <3>1. heap' = heap /\ raced' = raced /\ lchain' = lchain
      BY <2>4 DEF GetLink
    <3>2. ASSUME NEW u \in (Readers \ raced)', u # t
          PROVE  u \in Readers \ raced /\ UNCHANGED <<pc[u], snode[u], lnk[u], key[u]>>
      BY <2>4, <3>2 DEF GetLink, Go, Local, Readers, TypeOK
    <3>3. ASSUME t \notin raced PROVE \E i \in DOMAIN lchain' : FoundAt(t, i)'
      <4>1. PICK i \in DOMAIN lchain : FoundAt(t, i)
        BY <2>4, <2>g, <3>3 DEF GetLink, Go, Readers
      <4>2. snode'[t] = snode[t] /\ lnk'[t] = heap[snode[t]] /\ key'[t] = key[t]
        BY <2>4 DEF GetLink, Local, TypeOK
      <4> QED BY <3>1, <4>1, <4>2
    <3> QED BY <2>f, <3>1, <3>2, <3>3
  <2>5. ASSUME NEW t \in Threads, UseDone(t)
        PROVE  \A u \in (Readers \ raced)' : \E i \in DOMAIN lchain' : FoundAt(u, i)'
    <3>1. heap' = heap /\ lchain' = lchain
      BY <2>5 DEF UseDone
    <3>2. ASSUME NEW u \in (Readers \ raced)'
          PROVE  u \in Readers \ raced /\ UNCHANGED <<pc[u], snode[u], lnk[u], key[u]>>
      BY <2>5 DEF UseDone, Go, Local, Readers, TypeOK
    <3> QED BY <2>f, <3>1, <3>2
  (* An extraction overlaps every look-up that is under way. *)
  <2>6. ASSUME NEW t \in Threads,
               \/ \E name \in Names : link_store_extract(t, name)
               \/ link_store_extract_first(t)
        PROVE  (Readers \ raced)' = {}
    BY <2>6 DEF link_store_extract, link_store_extract_first, Go, Readers, TypeOK
  <2>7. ASSUME NEW t \in Threads, FreeFirst(t) \/ Disconnect(t)
        PROVE  \A u \in (Readers \ raced)' : \E i \in DOMAIN lchain' : FoundAt(u, i)'
    <3>1. heap' = heap /\ lchain' = lchain /\ raced' = raced
      BY <2>7 DEF FreeFirst, Disconnect
    <3>2. ASSUME NEW u \in (Readers \ raced)'
          PROVE  u \in Readers \ raced /\ UNCHANGED <<pc[u], snode[u], lnk[u], key[u]>>
      BY <2>7 DEF FreeFirst, Disconnect, Go, Local, Readers, TypeOK
    <3> QED BY <2>f, <3>1, <3>2
  <2>8. ASSUME UNCHANGED <<heap, lchain, pc, key, snode, lnk, raced>>
        PROVE  \A u \in (Readers \ raced)' : \E i \in DOMAIN lchain' : FoundAt(u, i)'
    BY <2>8, <2>g DEF Readers
  <2> QED
    BY <2>1, <2>2, <2>3, <2>4, <2>5, <2>6, <2>7, <2>8 DEF Next, Thread, AppendFails, Done, vars
<1> QED BY <1>1, <1>2, StoreCorrect, PTL DEF Spec

-------------------------------------------------------------------------------
(* The abstract state of the refinement. *)
list == [i \in DOMAIN lchain |-> heap[lchain[i]]]
gone == {l \in Links : life[l] \in {"out", "freed"}}

(* The links along the chain are a sequence as long as the chain.          *)
LEMMA ListIsSeq ==
  ASSUME StoreInv
  PROVE  /\ list \in Seq(Links) /\ Len(list) = Len(lchain) /\ DOMAIN list = 1..Len(lchain)
         /\ \A i \in 1..Len(lchain) : list[i] = heap[lchain[i]]
<1>1. DOMAIN lchain = 1..Len(lchain) /\ Len(lchain) \in Nat
  BY LenProperties DEF StoreInv, TypeOK
<1>2. list \in [1..Len(lchain) -> Links]
  BY <1>1 DEF list, StoreInv, ChainInv
<1>3. list \in Seq(Links)
  BY <1>1, <1>2 DEF Seq
<1> QED BY <1>1, <1>3, LenProperties DEF list

(* An extraction of the k-th node is a departure from the abstract list. *)
LEMMA ShrinkRefines ==
  ASSUME StoreInv, StoreInv', NEW k \in 1..Len(lchain), Shrinks(k), heap' = heap,
         life' = [life EXCEPT ![heap[lchain[k]]] = "out"]
  PROVE  /\ list' = RemoveAt(list, k)
         /\ gone' = gone \cup {list[k]}
<1>1. /\ list \in Seq(Links) /\ Len(list) = Len(lchain)
      /\ \A i \in 1..Len(lchain) : list[i] = heap[lchain[i]]
      /\ Len(lchain) \in Nat
  BY ListIsSeq, LenProperties DEF StoreInv, TypeOK
<1>2. /\ list' \in Seq(Links) /\ Len(list') = Len(lchain) - 1
      /\ \A i \in 1..Len(lchain)-1 : list'[i] = heap[lchain'[i]]
  <2>1. (/\ list \in Seq(Links) /\ Len(list) = Len(lchain)
         /\ \A i \in 1..Len(lchain) : list[i] = heap[lchain[i]])'
    BY ListIsSeq, PTL
  <2> QED BY <2>1 DEF Shrinks
<1>3. /\ RemoveAt(list, k) \in Seq(Links) /\ Len(RemoveAt(list, k)) = Len(lchain) - 1
      /\ \A i \in 1..Len(lchain)-1 : RemoveAt(list, k)[i] = IF i < k THEN list[i] ELSE list[i+1]
  BY <1>1, RemoveAtProperties
<1>4. \A i \in 1..Len(lchain)-1 : list'[i] = RemoveAt(list, k)[i]
  <2> SUFFICES ASSUME NEW i \in 1..Len(lchain)-1 PROVE list'[i] = RemoveAt(list, k)[i]
    OBVIOUS
  <2>1. i \in 1..Len(lchain) /\ i + 1 \in 1..Len(lchain)
    BY <1>1
  <2>2. list'[i] = heap[IF i < k THEN lchain[i] ELSE lchain[i+1]]
    BY <1>2 DEF Shrinks
  <2>3. RemoveAt(list, k)[i] = IF i < k THEN list[i] ELSE list[i+1]
    BY <1>3
  <2> QED BY <1>1, <2>1, <2>2, <2>3
<1>5. list' = RemoveAt(list, k)
  BY <1>2, <1>3, <1>4, SeqEqual
<1>6. heap[lchain[k]] \in Links /\ life \in [Links -> {"new", "appending", "stored", "out", "freed", "leaked"}]
  BY LenProperties DEF StoreInv, ChainInv, TypeOK
<1>7. gone' = gone \cup {heap[lchain[k]]}
  BY <1>6 DEF gone
<1> QED BY <1>1, <1>5, <1>7

(* The link store implements the ordered list of LinkList. *)
THEOREM StoreRefinesList == Spec => ListSpec
<1>1. Init => List!Init
  BY LenProperties, EmptySeq DEF Init, List!Init
<1>2. ASSUME StoreInv, StoreInv', [Next]_vars PROVE [List!Next]_(List!vars)
  <2> USE <1>2
  <2>0. DOMAIN lchain = 1..Len(lchain) /\ Len(lchain) \in Nat
    BY LenProperties DEF StoreInv, TypeOK
  <2>s. ASSUME list' = list, gone' = gone PROVE [List!Next]_(List!vars)
    BY <2>s DEF List!vars, list, gone
  <2>l. ASSUME NEW i \in DOMAIN list, \A j \in 1..i-1 : Name[list[j]] # Name[list[i]],
               list' = RemoveAt(list, i), gone' = gone \cup {list[i]}
        PROVE  [List!Next]_(List!vars)
    <3>1. List!MayLeave(i)
      BY <2>l DEF List!MayLeave, list
    <3>2. RemoveAt(list, i) = List!RemoveAt(list, i)
      BY DEF RemoveAt, List!RemoveAt
    <3>3. List!Leave(i)
      BY <2>l, <3>2, Zenon DEF List!Leave, list, gone
    <3>4. i \in DOMAIN [j \in DOMAIN lchain |-> heap[lchain[j]]]
      BY DEF list
    <3> QED BY <3>1, <3>3, <3>4, Zenon DEF List!Next
  <2>a. ASSUME NEW l \in Links, l \notin gone, ~Contains(list, l), list' = Append(list, l),
               gone' = gone
        PROVE  [List!Next]_(List!vars)
    <3>1. Contains(list, l) = List!Contains(list, l)
      BY DEF Contains, List!Contains
    <3>2. List!Append1(l)
      BY <2>a, <3>1, Zenon DEF List!Append1, list, gone
    <3> QED BY <3>2, Zenon DEF List!Next
  <2>t. /\ lchain \in Seq(Nodes)
        /\ life \in [Links -> {"new", "appending", "stored", "out", "freed", "leaked"}]
    BY DEF StoreInv, TypeOK
  <2>1. ASSUME NEW t \in Threads, NEW l \in Links, link_store_append(t, l)
        PROVE  list' = list /\ gone' = gone
    <3>1. /\ lchain' = lchain /\ life[l] = "new" /\ life' = [life EXCEPT ![l] = "appending"]
          /\ \A i \in DOMAIN lchain : heap'[lchain[i]] = heap[lchain[i]]
      BY <2>1 DEF link_store_append, StoreInv, ChainInv, TypeOK
    <3>2. gone' = gone
      BY <2>t, <3>1 DEF gone
    <3>3. list' = list
      BY <3>1 DEF list
    <3> QED BY <3>2, <3>3
  <2>2. ASSUME NEW t \in Threads, AppendNode(t)
        PROVE  [List!Next]_(List!vars)
    <3>1. /\ pc[t] = "append" /\ heap' = heap /\ lchain' = Append(lchain, snode[t])
          /\ life' = [life EXCEPT ![lnk[t]] = "stored"]
      BY <2>2 DEF AppendNode, Go
    <3>2. /\ snode[t] \in Nodes /\ lnk[t] \in Links /\ life[lnk[t]] = "appending"
          /\ heap[snode[t]] = lnk[t]
      BY <3>1 DEF StoreInv, OwnerInv, HeldInv, Owner, Holding, Held, TypeOK
    <3>3. gone' = gone /\ lnk[t] \notin gone
      BY <2>t, <3>1, <3>2 DEF gone
    <3>4. /\ list \in Seq(Links) /\ Len(list) = Len(lchain)
          /\ \A i \in 1..Len(lchain) : list[i] = heap[lchain[i]]
      BY ListIsSeq
    <3>5. ~Contains(list, lnk[t])
      BY <2>0, <3>2, <3>4 DEF Contains, StoreInv, ChainInv
    <3>6. list' = Append(list, lnk[t])
      <4>1. (/\ list \in Seq(Links) /\ Len(list) = Len(lchain)
             /\ \A i \in 1..Len(lchain) : list[i] = heap[lchain[i]])'
        BY ListIsSeq, PTL
      <4>2. /\ Len(lchain') = Len(lchain) + 1 /\ lchain'[Len(lchain)+1] = snode[t]
            /\ \A i \in 1..Len(lchain) : lchain'[i] = lchain[i]
        BY <2>t, <3>1, <3>2, AppendProperties
      <4>3. /\ Append(list, lnk[t]) \in Seq(Links) /\ Len(Append(list, lnk[t])) = Len(list) + 1
            /\ Append(list, lnk[t])[Len(list)+1] = lnk[t]
            /\ \A i \in 1..Len(list) : Append(list, lnk[t])[i] = list[i]
        BY <3>2, <3>4, AppendProperties
      <4>4. ASSUME NEW i \in 1..Len(list')
            PROVE  list'[i] = Append(list, lnk[t])[i]
        <5>1. CASE i = Len(lchain) + 1
          BY <2>0, <3>1, <3>2, <3>4, <4>1, <4>2, <4>3, <5>1
        <5>2. CASE i \in 1..Len(lchain)
          BY <2>0, <3>1, <3>4, <4>1, <4>2, <4>3, <5>2
        <5>3. Len(list') = Len(lchain) + 1
          BY <4>1, <4>2
        <5>4. i = Len(lchain) + 1 \/ i \in 1..Len(lchain)
          BY <2>0, <5>3
        <5> QED BY <5>1, <5>2, <5>4
      <4>5. Len(list') = Len(Append(list, lnk[t]))
        BY <3>4, <4>1, <4>2, <4>3
      <4> QED BY <4>1, <4>3, <4>4, <4>5, SeqEqual
    <3> QED BY <2>a, <3>2, <3>3, <3>5, <3>6
  <2>k. ASSUME NEW k \in 1..Len(lchain), Shrinks(k), heap' = heap,
               life' = [life EXCEPT ![heap[lchain[k]]] = "out"],
               \A j \in 1..k-1 : Name[heap[lchain[j]]] # Name[heap[lchain[k]]]
        PROVE  [List!Next]_(List!vars)
    <3>1. list' = RemoveAt(list, k) /\ gone' = gone \cup {list[k]}
      BY <2>k, ShrinkRefines
    <3>2. k \in DOMAIN list /\ \A j \in 1..k-1 : Name[list[j]] # Name[list[k]]
      BY <2>0, <2>k, ListIsSeq
    <3> QED BY <2>l, <3>1, <3>2
  <2>3. ASSUME NEW t \in Threads, NEW name \in Names, link_store_extract(t, name)
        PROVE  [List!Next]_(List!vars)
    <3>1. PICK k \in 1..Len(lchain) :
            /\ link_store_node_get(name) = lchain[k]
            /\ Matches(name, heap[lchain[k]])
            /\ \A j \in 1..k-1 : ~Matches(name, heap[lchain[j]])
      BY <2>3, NodeGetFirst DEF link_store_extract, StoreInv
    <3>2. /\ heap' = heap /\ lchain' = Unlink(lchain[k])
          /\ life' = [life EXCEPT ![heap[lchain[k]]] = "out"]
      BY <2>3, <3>1 DEF link_store_extract
    <3>3. Shrinks(k)
      BY <3>2, UnlinkShrinks DEF StoreInv
    <3> QED BY <2>k, <3>1, <3>2, <3>3 DEF Matches
  <2>4. ASSUME NEW t \in Threads, link_store_extract_first(t)
        PROVE  [List!Next]_(List!vars)
    <3>1. 1 \in 1..Len(lchain) /\ Head(lchain) = lchain[1] /\ Shrinks(1)
      BY <2>4, TailShrinks DEF link_store_extract_first, link_store_is_empty, StoreInv
    <3>2. heap' = heap /\ life' = [life EXCEPT ![heap[lchain[1]]] = "out"]
      BY <2>4, <3>1 DEF link_store_extract_first
    <3>3. \A j \in 1..1-1 : Name[heap[lchain[j]]] # Name[heap[lchain[1]]]
      OBVIOUS
    <3> QED BY <2>k, <3>1, <3>2, <3>3
  <2>5. ASSUME NEW t \in Threads, Disconnect(t)
        PROVE  list' = list /\ gone' = gone
    <3>1. /\ pc[t] = "close" /\ heap' = heap /\ lchain' = lchain
          /\ life' = [life EXCEPT ![lnk[t]] = "freed"]
      BY <2>5 DEF Disconnect, Go
    <3>2. lnk[t] \in Links /\ life[lnk[t]] = "out"
      BY <3>1 DEF StoreInv, HeldInv, Holding, Held
    <3> QED BY <2>t, <3>1, <3>2 DEF list, gone
  <2>6. ASSUME NEW l \in Links, AppendFails(l)
        PROVE  list' = list /\ gone' = gone
    <3>1. /\ heap' = heap /\ lchain' = lchain
          /\ life[l] = "new" /\ life' = [life EXCEPT ![l] = "leaked"]
      BY <2>6 DEF AppendFails
    <3> QED BY <2>t, <3>1 DEF list, gone
  <2>7. ASSUME UNCHANGED <<heap, lchain, life>>
        PROVE  list' = list /\ gone' = gone
    BY <2>7 DEF list, gone
  <2>8. ASSUME NEW t \in Threads,
               \/ \E name \in Names : link_store_get(t, name)
               \/ GetLink(t) \/ UseDone(t) \/ FreeFirst(t)
        PROVE  UNCHANGED <<heap, lchain, life>>
    BY <2>8 DEF link_store_get, GetLink, UseDone, FreeFirst
  <2>9. ASSUME NEW t \in Threads, Thread(t) PROVE [List!Next]_(List!vars)
    BY <2>9, <2>s, <2>1, <2>2, <2>3, <2>4, <2>5, <2>7, <2>8 DEF Thread
  <2>10. ASSUME UNCHANGED vars PROVE list' = list /\ gone' = gone
    BY <2>10, <2>7 DEF vars
  <2> QED BY <2>s, <2>6, <2>9, <2>10 DEF Next, Done
<1> QED BY <1>1, <1>2, StoreCorrect, PTL DEF Spec, ListSpec, List!Spec

================================================================================
