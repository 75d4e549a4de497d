------------------------ MODULE CacheRetentionProofs ------------------------
(***************************************************************************)
(* Proofs about CacheRetention for any trees, ages, limits and number of   *)
(* steps of other processes.                                               *)
(*                                                                         *)
(* A version number only grows, so a tree that changed after its first     *)
(* snapshot is never again equal to it (Versions).  What the last scan of  *)
(* /proc did not see was not open before it (Proven).  The worker touches  *)
(* the capacity only after every expired tree is gone (Phases), and while  *)
(* no other process has acted, nothing the worker does itself makes a      *)
(* second snapshot differ from the first (Quiet).                          *)
(***************************************************************************)
EXTENDS CacheRetention, NaturalLemmas, TLAPS

Tree == [left : Nat, ino : Nat, ver : Nat, ctime : Nat, newest : Nat]

TypeInv ==
  /\ tree \in [Trees -> Tree] /\ proof \in [Trees -> Tree]
  /\ use \in Int /\ held \subseteq Trees /\ early \subseteq Trees /\ moved \subseteq Trees
  /\ busy \subseteq Trees /\ dirty \subseteq Trees
  /\ pc \in {"claim", "list", "read", "scan", "age", "pressure", "capacity", "uv", "gate1",
             "prove", "gate2", "remove", "finish", "done", "refused"}
  /\ cand \in Candidates \cup {Uv, 0}
  /\ todo \subseteq Candidates /\ unscanned \subseteq Trees
  /\ events \in Nat

\* The first claim, listing and scan, before anything is chosen.
Starting == pc \in {"claim", "list", "read", "scan"} /\ cand = 0
Deleting == pc \in {"gate1", "list", "read", "prove", "gate2", "remove"} /\ cand # 0

\* Where the worker is, and what it has chosen by then.
Order ==
  /\ pc \in {"claim", "scan"} => cand = 0
  /\ pc \in {"gate1", "prove", "gate2", "remove"} => cand # 0
  /\ pc \in {"claim", "list", "read"} /\ cand = 0 => todo = {}
  /\ pc \in {"age", "pressure", "capacity", "uv"} => cand # Uv
  /\ cand \notin todo
  /\ Starting \/ pc = "refused" \/ unscanned = {}
  /\ todo \cap unscanned = {} /\ dirty \cap unscanned = {}
  /\ Uv \in dirty => cand = Uv

\* A changed tree differs from its first snapshot for good.
Versions ==
  /\ \A t \in Trees : tree[t].ver >= proof[t].ver
  /\ \A t \in dirty : tree[t].ver > proof[t].ver

\* What the second snapshot established.
Proven ==
  /\ pc \in {"prove", "gate2", "remove"} => early \ moved \subseteq busy
  /\ pc \in {"gate2", "remove"} => cand \notin busy /\ cand \notin dirty
  /\ pc = "gate2" /\ gate => gated
  /\ pc = "remove" => gated

AgeDone == \A u \in Candidates : Chosen(u) /\ Expired(u) => u \notin todo /\ tree[u].left = 0

\* Age expiry comes first and is complete when capacity is looked at.
Phases ==
  /\ Starting \/ pc \in {"age", "pressure"} => ~pressure
  /\ pc = "uv" => pressure
  /\ Deleting /\ ~pressure => cand \in Candidates /\ Expired(cand)
  /\ pressure \/ pc \in {"pressure", "capacity", "uv"} => AgeDone
  /\ pc # "refused" => \A u \in Candidates : Chosen(u) /\ Expired(u) =>
        u \in todo \/ tree[u].left = 0 \/ (Deleting /\ u = cand)

\* Nobody but the worker has acted.
Quiet == ~hit =>
  /\ gate /\ moved = {} /\ busy \subseteq held
  /\ pc = "read" => early = held
  /\ pc = "scan" => busy = held
  /\ (pc \in {"claim", "list", "read"} /\ cand = 0) \/ pc = "refused" \/ uvBusy = (Uv \in held)
  /\ \A t \in todo : t \notin held /\ Fingerprint(t) = proof[t]
  /\ Deleting => /\ cand \notin held
                 /\ tree[cand].ino = proof[cand].ino /\ tree[cand].ver = proof[cand].ver
                 /\ pc \in {"gate2", "remove"} \/ Fingerprint(cand) = proof[cand]
  /\ pc = "uv" => use > Low

\* The inductive invariant.
IInv == TypeInv /\ Order /\ Versions /\ Proven /\ Phases /\ Quiet /\ RefusalHasCause

-----------------------------------------------------------------------------
(* What is worked on first *)

\* The sort key has a least tree in any set of trees that is not empty.
LEMMA FirstIn ==
  ASSUME NEW S, S \subseteq Trees, S # {}, proof \in [Trees -> Tree]
  PROVE  First(S) \in S
<1> USE RetentionAssumption
<1> DEFINE root(x) == IF x \in Workspaces THEN 0 ELSE 1
           W == IF \E t \in S : root(t) = 0 THEN {t \in S : root(t) = 0} ELSE S
           Ages == {proof[t].newest : t \in W}
<1>1. W \subseteq S /\ W # {} /\ \A t \in W, u \in S : root(t) < root(u) \/ u \in W
  OBVIOUS
<1>2. \A t, u \in W : root(t) = root(u)
  OBVIOUS
<1>3. \A t \in S : proof[t].newest \in Nat /\ t \in Nat
  BY DEF Tree
<1> HIDE DEF W
<1>4. PICK a \in Ages : \A b \in Ages : a <= b
  <2>0. PICK w \in W : TRUE
    BY <1>1
  <2>1. \A t \in W : proof[t].newest \in Nat
    BY <1>1, <1>3
  <2>2. Ages \subseteq Nat /\ proof[w].newest \in Ages
    BY <2>0, <2>1
  <2> QED BY <2>2, LeastElement
<1> DEFINE V == {t \in W : proof[t].newest = a}
<1>5. PICK m \in V : \A n \in V : m <= n
  <2>1. V \subseteq Nat /\ V # {}
    BY <1>1, <1>3, <1>4
  <2> QED BY <2>1, LeastElement
<1>6. ASSUME NEW u \in S PROVE Before(m, u)
  <2>1. CASE u \notin W
    BY <2>1, <1>1, <1>5 DEF Before
  <2>2. CASE u \in W /\ u \notin V
    <3>1. proof[m].newest = a /\ a <= proof[u].newest /\ proof[u].newest # a
      BY <2>2, <1>4, <1>5
    <3>2. proof[m].newest < proof[u].newest
      BY <3>1, <1>3, <1>1, <1>5
    <3>3. root(m) = root(u)
      BY <1>2, <1>5, <2>2
    <3> QED BY <3>2, <3>3 DEF Before
  <2>3. CASE u \in V
    <3>1. proof[m].newest = proof[u].newest /\ m <= u
      BY <2>3, <1>5
    <3>2. root(m) = root(u)
      BY <1>2, <1>5, <2>3
    <3> QED BY <3>1, <3>2 DEF Before
  <2> QED BY <2>1, <2>2, <2>3
<1>7. m \in S
  BY <1>1, <1>5
<1> QED BY <1>6, <1>7 DEF First

\* The next tree of the candidate loop.
LEMMA NextUnscanned ==
  ASSUME unscanned \subseteq Trees, unscanned # {}
  PROVE  (CHOOSE t \in unscanned : \A u \in unscanned : t <= u) \in unscanned
<1>1. unscanned \subseteq Nat
  BY RetentionAssumption
<1>2. \E t \in unscanned : \A u \in unscanned : t <= u
  BY <1>1, LeastElement
<1> QED BY <1>2

-----------------------------------------------------------------------------
(* The invariant *)

\* Nothing is chosen at first.
LEMMA InitInv == Init => IInv
<1> SUFFICES ASSUME Init PROVE IInv
  OBVIOUS
<1> USE RetentionAssumption
<1>1. TypeInv
  <2>1. PICK age \in [Candidates -> 0 .. Now] :
         tree = [t \in Trees |-> [left |-> Entries, ino |-> 1, ver |-> 0, ctime |-> 0,
                                  newest |-> IF t \in Candidates THEN age[t] ELSE 0]]
    BY DEF Init
  <2>2. tree \in [Trees -> Tree]
    BY <2>1 DEF Tree
  <2>3. proof \in [Trees -> Tree]
    BY <2>2 DEF Init, Tree
  <2> QED BY <2>2, <2>3 DEF Init, TypeInv
<1>2. Order
  BY DEF Init, Order, Candidates, Starting
<1>3. Versions
  BY <1>1 DEF Init, Versions, TypeInv, Tree
<1>4. \A t \in Trees : ~Chosen(t)
  BY <1>1 DEF Init, Chosen, TypeInv, Tree
<1>5. Proven /\ Quiet /\ RefusalHasCause
  BY DEF Init, Proven, Quiet, RefusalHasCause, Deleting
<1>6. Phases
  BY <1>4 DEF Init, Phases, Starting, Deleting, Candidates
<1> QED BY <1>1, <1>2, <1>3, <1>5, <1>6 DEF IInv

\* The worker moves on and touches nothing.
LEMMA ClaimStep ==
  ASSUME IInv, Claim
  PROVE  IInv'
<1>1. UNCHANGED <<tree, use, host, cand, busy, plan, dirty, gated>> /\ pc = "claim" /\ cand = 0
  BY DEF Claim, IInv, Order
<1>2. (gate /\ pc' = "list") \/ (~gate /\ pc' = "refused")
  BY DEF Claim, Refuse
<1>3. TypeInv'
  BY <1>1, <1>2 DEF IInv, TypeInv, host, plan
<1>4. Order' /\ Versions' /\ Proven'
  BY <1>1, <1>2 DEF IInv, Order, Versions, Proven, Starting, host, plan
<1>5. Phases'
  BY <1>1, <1>2 DEF IInv, Phases, AgeDone, Starting, Deleting, Chosen, Expired, host, plan
<1>6. Quiet' /\ RefusalHasCause'
  BY <1>1, <1>2 DEF IInv, Quiet, RefusalHasCause, Deleting, Fingerprint, host, plan
<1> QED BY <1>3, <1>4, <1>5, <1>6 DEF IInv

\* The processes are listed.
LEMMA ListStep ==
  ASSUME IInv, List
  PROVE  IInv'
<1>1. /\ UNCHANGED <<tree, use, held, gate, events, hit, cand, busy, plan, dirty, gated>>
      /\ pc = "list" /\ pc' = "read" /\ early' = held /\ moved' = {}
  BY DEF List
<1>3. TypeInv'
  BY <1>1 DEF IInv, TypeInv, host, plan
<1>4. Order' /\ Versions' /\ Proven'
  BY <1>1 DEF IInv, Order, Versions, Proven, Starting, host, plan
<1>5. Phases'
  BY <1>1 DEF IInv, Phases, AgeDone, Starting, Deleting, Chosen, Expired, host, plan
<1>6. Quiet' /\ RefusalHasCause'
  BY <1>1 DEF IInv, Quiet, RefusalHasCause, Deleting, Fingerprint, host, plan
<1> QED BY <1>3, <1>4, <1>5, <1>6 DEF IInv

\* They are read.
LEMMA ReadStep ==
  ASSUME IInv, Read
  PROVE  IInv'
<1>0. PICK seen \in SUBSET held :
         /\ pc = "read" /\ early \ moved \subseteq seen /\ busy' = seen
         /\ IF cand = 0 THEN pc' = "scan" /\ uvBusy' = (Uv \in seen)
                        ELSE pc' = "prove" /\ UNCHANGED uvBusy
         /\ UNCHANGED <<tree, use, host, cand, unscanned, proof, todo, pressure, dirty, gated>>
  BY DEF Read
<1>1. /\ UNCHANGED <<tree, use, held, early, moved, gate, events, hit, cand, unscanned, proof, todo,
                     pressure, dirty, gated>>
      /\ pc = "read" /\ early \ moved \subseteq busy' /\ busy' \subseteq held
      /\ pc' = IF cand = 0 THEN "scan" ELSE "prove"
      /\ uvBusy' = IF cand = 0 THEN Uv \in busy' ELSE uvBusy
  BY <1>0 DEF host
<1>3. TypeInv'
  BY <1>1 DEF IInv, TypeInv
<1>4. Order' /\ Versions' /\ Proven'
  BY <1>1 DEF IInv, Order, Versions, Proven, Starting
<1>5. Phases'
  BY <1>1 DEF IInv, Phases, AgeDone, Starting, Deleting, Chosen, Expired
<1>6. Quiet' /\ RefusalHasCause'
  <2>1. ~hit => busy' = held
    BY <1>1 DEF IInv, Quiet
  <2> QED BY <1>1, <2>1 DEF IInv, Quiet, RefusalHasCause, Deleting, Fingerprint
<1> QED BY <1>3, <1>4, <1>5, <1>6 DEF IInv

\* One tree of the candidate loop, or its end.
LEMMA ScanStep ==
  ASSUME IInv, Scan
  PROVE  IInv'
<1> USE RetentionAssumption
<1>0. /\ UNCHANGED <<tree, use, held, early, moved, gate, events, hit, cand, busy, uvBusy, pressure, dirty, gated>>
      /\ pc = "scan" /\ cand = 0
  BY DEF Scan, host, IInv, Order
<1>a. CASE unscanned = {}
  <2>1. pc' = "age" /\ UNCHANGED <<unscanned, proof, todo>>
    BY <1>a DEF Scan
  <2>2. TypeInv' /\ Order' /\ Versions' /\ Proven'
    BY <1>0, <1>a, <2>1 DEF IInv, TypeInv, Order, Versions, Proven, Starting
  <2>3. Phases'
    BY <1>0, <2>1 DEF IInv, Order, Phases, AgeDone, Starting, Deleting, Chosen, Expired
  <2>4. Quiet' /\ RefusalHasCause'
    BY <1>0, <2>1 DEF IInv, Quiet, RefusalHasCause, Deleting, Fingerprint
  <2> QED BY <2>2, <2>3, <2>4 DEF IInv
<1>b. CASE unscanned # {}
  <2> DEFINE t == CHOOSE t \in unscanned : \A u \in unscanned : t <= u
  <2>1. t \in unscanned /\ unscanned \subseteq Trees
    BY <1>b, NextUnscanned DEF IInv, TypeInv
  <2>2. /\ pc' = pc /\ unscanned' = unscanned \ {t}
        /\ \/ t \in Candidates \ busy /\ proof' = [proof EXCEPT ![t] = Fingerprint(t)] /\ todo' = todo \cup {t}
           \/ UNCHANGED <<proof, todo>>
    BY <1>b DEF Scan
  <2> HIDE DEF t
  <2>3. CASE t \in Candidates \ busy /\ proof' = [proof EXCEPT ![t] = Fingerprint(t)] /\ todo' = todo \cup {t}
    <3>0. tree \in [Trees -> Tree] /\ proof \in [Trees -> Tree] /\ t \in Trees
      BY <2>1 DEF IInv, TypeInv
    <3>1. /\ Fingerprint(t) \in Tree /\ Fingerprint(t).ver = tree[t].ver
      BY <3>0 DEF Fingerprint, Tree
    <3>2. /\ proof' \in [Trees -> Tree] /\ proof'[t] = Fingerprint(t)
          /\ \A u \in Trees \ {t} : proof'[u] = proof[u]
      BY <3>0, <3>1, <2>3
    <3>3. TypeInv'
      BY <1>0, <2>1, <2>2, <2>3, <3>2 DEF IInv, TypeInv
    <3>4. Order' /\ Proven'
      BY <1>0, <2>1, <2>2, <2>3 DEF IInv, Order, Proven, Starting, Candidates
    <3>5. Versions'
      <4>1. t \notin dirty /\ dirty \subseteq Trees
        BY <2>1 DEF IInv, Order, TypeInv
      <4>2. tree[t].ver \in Nat
        BY <3>0 DEF Tree
      <4> QED BY <4>1, <4>2, <1>0, <3>1, <3>2 DEF IInv, Versions
    <3>6. Phases'
      <4>1. ~pressure' /\ pc' = "scan" /\ cand' = 0
        BY <1>0, <2>2 DEF IInv, Phases, Starting
      <4>2. \A u \in Candidates : (Chosen(u) /\ Expired(u))' => u \in todo' \/ tree'[u].left = 0
        <5> SUFFICES ASSUME NEW u \in Candidates, u # t, (Chosen(u) /\ Expired(u))'
                     PROVE  u \in todo' \/ tree'[u].left = 0
          BY <2>3
        <5>1. Chosen(u) /\ Expired(u)
          BY <3>2 DEF Chosen, Expired, Candidates
        <5> QED BY <5>1, <1>0, <2>3 DEF IInv, Phases, Deleting
      <4> QED BY <4>1, <4>2 DEF Phases, Starting, Deleting
    <3>7. Quiet'
      <4>1. \A u : Fingerprint(u)' = Fingerprint(u)
        BY <1>0 DEF Fingerprint
      <4>2. todo \subseteq Trees /\ t \notin todo
        BY <2>1 DEF IInv, TypeInv, Order, Candidates
      <4> QED BY <4>1, <4>2, <1>0, <2>2, <2>3, <3>2 DEF IInv, Quiet, Deleting
    <3>8. RefusalHasCause'
      BY <1>0, <2>2 DEF RefusalHasCause
    <3> QED BY <3>3, <3>4, <3>5, <3>6, <3>7, <3>8 DEF IInv
  <2>4. CASE UNCHANGED <<proof, todo>>
    <3>1. TypeInv' /\ Order' /\ Versions' /\ Proven'
      BY <1>0, <2>1, <2>2, <2>4 DEF IInv, TypeInv, Order, Versions, Proven, Starting
    <3>2. Phases'
      BY <1>0, <2>2, <2>4 DEF IInv, Order, Phases, AgeDone, Starting, Deleting, Chosen, Expired
    <3>3. Quiet' /\ RefusalHasCause'
      BY <1>0, <2>2, <2>4 DEF IInv, Quiet, RefusalHasCause, Deleting, Fingerprint
    <3> QED BY <3>1, <3>2, <3>3 DEF IInv
  <2> QED BY <2>2, <2>3, <2>4
<1> QED BY <1>a, <1>b

\* A chosen tree is taken from the list for deletion.
LEMMA DeleteStep ==
  ASSUME IInv, NEW t \in todo, pc \in {"age", "capacity"}, pc' = "gate1", cand' = t, todo' = todo \ {t},
         IF pc = "age" THEN Expired(t) ELSE pressure,
         UNCHANGED <<tree, use, host, busy, uvBusy, unscanned, proof, pressure, dirty, gated>>
  PROVE  IInv'
<1> USE RetentionAssumption
<1>1. UNCHANGED <<held, early, moved, gate, events, hit>>
  BY DEF host
<1>2. t \in Candidates /\ t \in Trees /\ t # 0 /\ t # Uv /\ t # cand
  BY DEF IInv, TypeInv, Candidates, Order
<1>3. TypeInv'
  BY <1>1, <1>2 DEF IInv, TypeInv
<1>4. Order' /\ Versions' /\ Proven'
  BY <1>1, <1>2 DEF IInv, TypeInv, Order, Versions, Proven, Starting
<1>5. Phases'
  <2>1. \A u : (Chosen(u)' <=> Chosen(u)) /\ (Expired(u)' <=> Expired(u))
    BY DEF Chosen, Expired
  <2>2. AgeDone => AgeDone'
    BY <2>1 DEF AgeDone
  <2> QED BY <1>2, <2>1, <2>2 DEF IInv, Phases, Starting, Deleting
<1>6. Quiet' /\ RefusalHasCause'
  <2>1. \A u : Fingerprint(u)' = Fingerprint(u)
    BY DEF Fingerprint
  <2>2. Fingerprint(t) = proof[t] => tree[t].ino = proof[t].ino /\ tree[t].ver = proof[t].ver
    BY <1>2 DEF IInv, TypeInv, Tree, Fingerprint
  <2> QED BY <1>1, <1>2, <2>1, <2>2 DEF IInv, Quiet, RefusalHasCause, Deleting
<1> QED BY <1>3, <1>4, <1>5, <1>6 DEF IInv

\* The age loop.
LEMMA PickAgeStep ==
  ASSUME IInv, PickAge
  PROVE  IInv'
<1> DEFINE old == {t \in todo : Expired(t)}
<1>0. /\ UNCHANGED <<tree, use, host, busy, uvBusy, unscanned, proof, pressure, dirty, gated>> /\ pc = "age"
      /\ IF old = {} THEN pc' = "pressure" /\ UNCHANGED <<cand, todo>>
                     ELSE pc' = "gate1" /\ cand' = First(old) /\ todo' = todo \ {First(old)}
  BY DEF PickAge, Delete
<1>1. CASE old # {}
  <2>1. First(old) \in old
    BY <1>1, FirstIn DEF IInv, TypeInv, Candidates
  <2> DEFINE t == First(old)
  <2>2. t \in todo /\ Expired(t) /\ pc' = "gate1" /\ cand' = t /\ todo' = todo \ {t}
    BY <1>0, <1>1, <2>1
  <2> HIDE DEF t, old
  <2> QED BY <1>0, <2>2, DeleteStep
<1>2. CASE old = {}
  <2>1. /\ UNCHANGED <<tree, use, held, early, moved, gate, events, hit, busy, uvBusy, unscanned, proof,
                       pressure, dirty, gated, cand, todo>>
        /\ pc = "age" /\ pc' = "pressure"
    BY <1>0, <1>2 DEF host
  <2>2. \A t \in todo : ~Expired(t)
    BY <1>2
  <2>3. TypeInv' /\ Order' /\ Versions' /\ Proven'
    BY <2>1 DEF IInv, TypeInv, Order, Versions, Proven, Starting
  <2>4. Phases'
    BY <2>1, <2>2 DEF IInv, Order, Phases, AgeDone, Starting, Deleting, Chosen, Expired
  <2>5. Quiet' /\ RefusalHasCause'
    BY <2>1 DEF IInv, Quiet, RefusalHasCause, Deleting, Fingerprint
  <2> QED BY <2>3, <2>4, <2>5 DEF IInv
<1> QED BY <1>1, <1>2

\* The pressure is decided.
LEMMA PressureStep ==
  ASSUME IInv, Pressure
  PROVE  IInv'
<1>1. /\ UNCHANGED <<tree, use, held, early, moved, gate, events, hit, busy, uvBusy, unscanned, proof,
                     dirty, gated, cand, todo>>
      /\ pc = "pressure" /\ pc' = "capacity"
  BY DEF Pressure, host
<1>3. TypeInv'
  BY <1>1 DEF IInv, TypeInv
<1>4. Order' /\ Versions' /\ Proven'
  BY <1>1 DEF IInv, TypeInv, Order, Versions, Proven, Starting
<1>5. Phases'
  BY <1>1 DEF IInv, Order, Phases, AgeDone, Starting, Deleting, Chosen, Expired
<1>6. Quiet' /\ RefusalHasCause'
  BY <1>1 DEF IInv, Quiet, RefusalHasCause, Deleting, Fingerprint
<1> QED BY <1>3, <1>4, <1>5, <1>6 DEF IInv

\* The capacity loop.
LEMMA PickCapacityStep ==
  ASSUME IInv, PickCapacity
  PROVE  IInv'
<1>0. UNCHANGED <<tree, use, host, busy, uvBusy, unscanned, proof, pressure, dirty, gated>> /\ pc = "capacity"
  BY DEF PickCapacity
<1>1. CASE todo # {} /\ pressure /\ use > Low
  <2>1. First(todo) \in todo
    BY <1>1, FirstIn DEF IInv, TypeInv, Candidates
  <2> DEFINE t == First(todo)
  <2>2. t \in todo /\ pc' = "gate1" /\ cand' = t /\ todo' = todo \ {t}
    BY <1>0, <1>1, <2>1 DEF PickCapacity, Delete
  <2> HIDE DEF t
  <2> QED BY <1>0, <1>1, <2>2, DeleteStep
<1>2. CASE ~(todo # {} /\ pressure /\ use > Low)
  <2>1. /\ UNCHANGED <<tree, use, held, early, moved, gate, events, hit, busy, uvBusy, unscanned, proof,
                       pressure, dirty, gated, cand>>
        /\ pc = "capacity" /\ todo' \subseteq todo
        /\ pc' \in {"capacity", "uv", "finish"} /\ (pc' = "uv" => pressure /\ use > Low)
    BY <1>0, <1>2 DEF host, PickCapacity
  <2>3. TypeInv' /\ Order' /\ Versions' /\ Proven'
    BY <2>1 DEF IInv, TypeInv, Order, Versions, Proven, Starting
  <2>4. Phases'
    BY <2>1 DEF IInv, Order, Phases, AgeDone, Starting, Deleting, Chosen, Expired
  <2>5. Quiet' /\ RefusalHasCause'
    BY <2>1 DEF IInv, Quiet, RefusalHasCause, Deleting, Fingerprint
  <2> QED BY <2>3, <2>4, <2>5 DEF IInv
<1> QED BY <1>1, <1>2

\* The uv cache is looked at.
LEMMA UvProofStep ==
  ASSUME IInv, UvProof
  PROVE  IInv'
<1> USE RetentionAssumption
<1>0. /\ UNCHANGED <<tree, use, held, early, moved, gate, events, hit, busy, uvBusy, unscanned, todo,
                     pressure, dirty, gated>>
      /\ pc = "uv"
  BY DEF UvProof, host
<1>1. CASE UNCHANGED <<cand, proof>> /\ (pc' = "finish" \/ (pc' = "refused" /\ uvBusy))
  <2>3. TypeInv' /\ Order' /\ Versions' /\ Proven'
    BY <1>0, <1>1 DEF IInv, TypeInv, Order, Versions, Proven, Starting
  <2>4. Phases'
    BY <1>0, <1>1 DEF IInv, Order, Phases, AgeDone, Starting, Deleting, Chosen, Expired
  <2>5. Quiet' /\ RefusalHasCause'
    BY <1>0, <1>1 DEF IInv, Quiet, RefusalHasCause, Deleting, Fingerprint
  <2> QED BY <2>3, <2>4, <2>5 DEF IInv
<1>2. CASE pc' = "gate1" /\ cand' = Uv /\ proof' = [proof EXCEPT ![Uv] = Fingerprint(Uv)] /\ ~uvBusy
  <2>0. /\ tree \in [Trees -> Tree] /\ proof \in [Trees -> Tree] /\ Uv \in Trees /\ Uv # 0
        /\ Uv \notin todo /\ Uv \notin dirty /\ dirty \subseteq Trees /\ todo \subseteq Trees
        /\ Uv \notin Candidates
    BY <1>0 DEF IInv, TypeInv, Order, Candidates
  <2>1. /\ Fingerprint(Uv) \in Tree /\ Fingerprint(Uv).ver = tree[Uv].ver
        /\ Fingerprint(Uv).ino = tree[Uv].ino
    BY <2>0 DEF Fingerprint, Tree
  <2>2. /\ proof' \in [Trees -> Tree] /\ proof'[Uv] = Fingerprint(Uv)
        /\ \A u \in Trees \ {Uv} : proof'[u] = proof[u]
    BY <2>0, <2>1, <1>2
  <2>3. TypeInv'
    BY <1>0, <1>2, <2>2 DEF IInv, TypeInv
  <2>4. Order' /\ Proven'
    BY <1>0, <1>2, <2>0 DEF IInv, Order, Proven, Starting
  <2>5. Versions'
    <3>1. tree[Uv].ver \in Nat
      BY <2>0 DEF Tree
    <3> QED BY <3>1, <1>0, <2>0, <2>1, <2>2 DEF IInv, Versions
  <2>6. Phases'
    <3>1. \A u \in Candidates : (Chosen(u)' <=> Chosen(u)) /\ (Expired(u)' <=> Expired(u))
      BY <2>0, <2>2 DEF Chosen, Expired, Candidates
    <3>2. AgeDone /\ pressure
      BY <1>0 DEF IInv, Phases
    <3>3. AgeDone'
      BY <1>0, <3>1, <3>2 DEF AgeDone
    <3>4. \A u \in Candidates : Chosen(u)' /\ Expired(u)' => tree'[u].left = 0
      BY <3>3 DEF AgeDone
    <3> QED BY <1>0, <1>2, <3>2, <3>3, <3>4 DEF Phases, Starting, Deleting
  <2>7. Quiet' /\ RefusalHasCause'
    <3>1. \A u : Fingerprint(u)' = Fingerprint(u)
      BY <1>0 DEF Fingerprint
    <3> QED BY <3>1, <1>0, <1>2, <2>0, <2>1, <2>2 DEF IInv, Quiet, RefusalHasCause, Deleting
  <2> QED BY <2>3, <2>4, <2>5, <2>6, <2>7 DEF IInv
<1>3. \/ UNCHANGED <<cand, proof>> /\ (pc' = "finish" \/ (pc' = "refused" /\ uvBusy))
      \/ pc' = "gate1" /\ cand' = Uv /\ proof' = [proof EXCEPT ![Uv] = Fingerprint(Uv)] /\ ~uvBusy
  BY Zenon DEF UvProof, Delete, Refuse
<1> QED BY <1>1, <1>2, <1>3

\* The gate before the second scan.
LEMMA Gate1Step ==
  ASSUME IInv, Gate1
  PROVE  IInv'
<1>1. /\ UNCHANGED <<tree, use, held, early, moved, gate, events, hit, busy, uvBusy, unscanned, proof,
                     pressure, dirty, gated, cand, todo>>
      /\ pc = "gate1" /\ ((gate /\ pc' = "list") \/ (~gate /\ pc' = "refused"))
  <2>1. UNCHANGED <<tree, use, host, cand, busy, plan, dirty, gated>>
    BY DEF Gate1
  <2>2. UNCHANGED host /\ UNCHANGED plan
    BY <2>1
  <2>3. pc = "gate1" /\ ((gate /\ pc' = "list") \/ (~gate /\ pc' = "refused"))
    BY DEF Gate1, Refuse
  <2>4. UNCHANGED <<held, early, moved, gate, events, hit>> /\ UNCHANGED <<uvBusy, unscanned, proof, todo, pressure>>
    BY <2>2 DEF host, plan
  <2> QED BY <2>1, <2>3, <2>4
<1>3. TypeInv'
  BY <1>1 DEF IInv, TypeInv
<1>4. Order' /\ Versions' /\ Proven'
  BY <1>1 DEF IInv, TypeInv, Order, Versions, Proven, Starting
<1>5. Phases'
  BY <1>1 DEF IInv, Order, Phases, AgeDone, Starting, Deleting, Chosen, Expired
<1>6. Quiet' /\ RefusalHasCause'
  BY <1>1 DEF IInv, Quiet, RefusalHasCause, Deleting, Fingerprint
<1> QED BY <1>3, <1>4, <1>5, <1>6 DEF IInv

\* The second snapshot.
LEMMA ProveStep ==
  ASSUME IInv, Prove
  PROVE  IInv'
<1> USE RetentionAssumption
<1>1. /\ UNCHANGED <<tree, use, held, early, moved, gate, events, hit, busy, uvBusy, unscanned, proof,
                     pressure, dirty, cand, todo>>
      /\ pc = "prove" /\ gated' = gate
      /\ \/ cand \notin busy /\ Fingerprint(cand) = proof[cand] /\ pc' = "gate2"
         \/ ~(cand \notin busy /\ Fingerprint(cand) = proof[cand]) /\ pc' = "refused"
  BY DEF Prove, Refuse, host, plan
<1>2. Fingerprint(cand) = proof[cand] => cand \notin dirty
  <2>1. cand \in Trees
    BY <1>1 DEF IInv, TypeInv, Candidates, Order
  <2>2. Fingerprint(cand).ver = tree[cand].ver /\ tree[cand].ver \in Nat
    BY <2>1 DEF IInv, TypeInv, Fingerprint, Tree
  <2> QED BY <2>2 DEF IInv, Versions
<1>3. TypeInv' /\ Order' /\ Versions' /\ Proven'
  BY <1>1, <1>2 DEF IInv, TypeInv, Order, Versions, Proven, Starting
<1>5. Phases'
  BY <1>1 DEF IInv, Order, Phases, AgeDone, Starting, Deleting, Chosen, Expired
<1>6. Quiet' /\ RefusalHasCause'
  <2>1. \A u : Fingerprint(u)' = Fingerprint(u)
    BY <1>1 DEF Fingerprint
  <2> QED BY <1>1, <2>1 DEF IInv, Order, Quiet, RefusalHasCause, Deleting
<1> QED BY <1>3, <1>5, <1>6 DEF IInv

\* The gate after it.
LEMMA Gate2Step ==
  ASSUME IInv, Gate2
  PROVE  IInv'
<1>1. /\ UNCHANGED <<tree, use, held, early, moved, gate, events, hit, busy, uvBusy, unscanned, proof,
                     pressure, dirty, gated, cand, todo>>
      /\ pc = "gate2" /\ ((gate /\ pc' = "remove") \/ (~gate /\ pc' = "refused"))
  <2>1. UNCHANGED <<tree, use, host, cand, busy, plan, dirty, gated>>
    BY DEF Gate2
  <2>2. UNCHANGED host /\ UNCHANGED plan
    BY <2>1
  <2>3. pc = "gate2" /\ ((gate /\ pc' = "remove") \/ (~gate /\ pc' = "refused"))
    BY DEF Gate2, Refuse
  <2>4. UNCHANGED <<held, early, moved, gate, events, hit>> /\ UNCHANGED <<uvBusy, unscanned, proof, todo, pressure>>
    BY <2>2 DEF host, plan
  <2> QED BY <2>1, <2>3, <2>4
<1>3. TypeInv'
  BY <1>1 DEF IInv, TypeInv
<1>4. Order' /\ Versions' /\ Proven'
  BY <1>1 DEF IInv, TypeInv, Order, Versions, Proven, Starting
<1>5. Phases'
  BY <1>1 DEF IInv, Order, Phases, AgeDone, Starting, Deleting, Chosen, Expired
<1>6. Quiet' /\ RefusalHasCause'
  BY <1>1 DEF IInv, Quiet, RefusalHasCause, Deleting, Fingerprint
<1> QED BY <1>3, <1>4, <1>5, <1>6 DEF IInv

\* The end of the run.
LEMMA FinishStep ==
  ASSUME IInv, Finish
  PROVE  IInv'
<1>1. /\ UNCHANGED <<tree, use, held, early, moved, gate, events, hit, busy, uvBusy, unscanned, proof,
                     pressure, dirty, gated, cand, todo>>
      /\ pc = "finish" /\ (pc' = "done" \/ (pc' = "refused" /\ (use > Low \/ use > Reserve)))
  <2>1. UNCHANGED <<tree, use, host, cand, busy, plan, dirty, gated>>
    BY DEF Finish
  <2>2. UNCHANGED host /\ UNCHANGED plan
    BY <2>1
  <2>3. pc = "finish" /\ (pc' = "done" \/ (pc' = "refused" /\ (use > Low \/ use > Reserve)))
    BY DEF Finish, Refuse
  <2>4. UNCHANGED <<held, early, moved, gate, events, hit>> /\ UNCHANGED <<uvBusy, unscanned, proof, todo, pressure>>
    BY <2>2 DEF host, plan
  <2> QED BY <2>1, <2>3, <2>4
<1>3. TypeInv'
  BY <1>1 DEF IInv, TypeInv
<1>4. Order' /\ Versions' /\ Proven'
  BY <1>1 DEF IInv, TypeInv, Order, Versions, Proven, Starting
<1>5. Phases'
  BY <1>1 DEF IInv, Order, Phases, AgeDone, Starting, Deleting, Chosen, Expired
<1>6. Quiet' /\ RefusalHasCause'
  BY <1>1 DEF IInv, Quiet, RefusalHasCause, Deleting, Fingerprint
<1> QED BY <1>3, <1>4, <1>5, <1>6 DEF IInv

\* Unlinking from one tree changes what a snapshot sees of that tree only: the
\* shared hard links of the others differ in their change time.
LEMMA UnlinkEffect ==
  ASSUME TypeInv, NEW t \in Trees, NEW n \in 0 .. tree[t].left, Unlink(t, n)
  PROVE  /\ tree' \in [Trees -> Tree] /\ use' \in Int
         /\ \A u \in Trees : tree'[u].ino = tree[u].ino /\ tree'[u].ver = tree[u].ver
         /\ \A u \in Trees \ {t} : tree'[u].left = tree[u].left /\ Fingerprint(u)' = Fingerprint(u)
         /\ tree'[t].left = tree[t].left - n
<1>0. tree \in [Trees -> Tree] /\ use \in Int /\ tree[t].left \in Nat /\ n \in Nat
  BY DEF TypeInv, Tree
<1>1. /\ tree' = [u \in Trees |->
           IF u = t THEN [tree[u] EXCEPT !.left = @ - n]
           ELSE IF {t, u} \subseteq Linked THEN [tree[u] EXCEPT !.ctime = 1] ELSE tree[u]]
      /\ use' \in {use - n} \cup (IF t \in Linked THEN {use} ELSE {})
  BY DEF Unlink
<1>2. /\ tree'[t] \in Tree /\ tree'[t].left = tree[t].left - n
      /\ tree'[t].ino = tree[t].ino /\ tree'[t].ver = tree[t].ver
  <2>1. tree'[t] = [tree[t] EXCEPT !.left = tree[t].left - n]
    BY <1>1
  <2>2. tree[t].left - n \in Nat /\ tree[t] \in Tree
    BY <1>0
  <2> QED BY <2>1, <2>2 DEF Tree
<1>3. ASSUME NEW u \in Trees \ {t}
      PROVE  /\ tree'[u] \in Tree /\ tree'[u].left = tree[u].left
             /\ tree'[u].ino = tree[u].ino /\ tree'[u].ver = tree[u].ver
             /\ [tree'[u] EXCEPT !.ctime = 0] = [tree[u] EXCEPT !.ctime = 0]
  <2>1. tree[u] \in Tree /\ (tree'[u] = tree[u] \/ tree'[u] = [tree[u] EXCEPT !.ctime = 1])
    BY <1>0, <1>1
  <2> QED BY <2>1 DEF Tree
<1>4. tree' = [u \in Trees |-> tree'[u]]
  BY <1>1
<1>5. tree' \in [Trees -> Tree]
  <2>1. \A u \in Trees : tree'[u] \in Tree
    BY <1>2, <1>3
  <2> QED BY <1>4, <2>1
<1>6. use' \in Int
  BY <1>0, <1>1
<1>7. \A u \in Trees \ {t} : Fingerprint(u)' = Fingerprint(u)
  BY <1>3 DEF Fingerprint
<1> QED BY <1>2, <1>3, <1>5, <1>6, <1>7

\* One entry is removed from the proven tree, or the removal ends.
LEMMA RemoveStep ==
  ASSUME IInv, Remove
  PROVE  /\ IInv'
         /\ \A t \in Trees : Shrinks(t) => t = cand /\ tree[t].ino = proof[t].ino
<1> USE RetentionAssumption
<1>0. /\ UNCHANGED <<held, early, moved, gate, events, hit, cand, busy, uvBusy, unscanned, proof, todo,
                     pressure, dirty, gated>>
      /\ pc = "remove" /\ cand # Uv
  <2>1. UNCHANGED host /\ UNCHANGED plan /\ UNCHANGED <<cand, busy, dirty, gated>> /\ pc = "remove" /\ cand # Uv
    BY DEF Remove
  <2> QED BY <2>1 DEF host, plan
<1>1. cand \in Trees /\ cand \in Candidates /\ cand # 0 /\ tree[cand].left \in Nat
  <2>1. cand \in Candidates /\ cand \in Trees /\ cand # 0
    BY <1>0 DEF IInv, TypeInv, Order, Candidates
  <2> QED BY <2>1 DEF IInv, TypeInv, Tree
<1>2. CASE tree[cand].ino = proof[cand].ino /\ tree[cand].left > 0 /\ Unlink(cand, 1) /\ pc' = pc
  <2>1. /\ tree' \in [Trees -> Tree] /\ use' \in Int
        /\ \A u \in Trees : tree'[u].ino = tree[u].ino /\ tree'[u].ver = tree[u].ver
        /\ \A u \in Trees \ {cand} : tree'[u].left = tree[u].left /\ Fingerprint(u)' = Fingerprint(u)
        /\ tree'[cand].left = tree[cand].left - 1
    <3>1. 1 \in 0 .. tree[cand].left
      BY <1>1, <1>2
    <3> QED BY <3>1, <1>1, <1>2, UnlinkEffect DEF IInv
  <2>2. TypeInv'
    BY <1>0, <1>2, <2>1 DEF IInv, TypeInv
  <2>3. Order' /\ Proven' /\ RefusalHasCause'
    BY <1>0, <1>2 DEF IInv, Order, Proven, Starting, RefusalHasCause
  <2>4. Versions'
    BY <1>0, <2>1 DEF IInv, Versions, TypeInv
  <2>5. Phases'
    <3>1. \A u : (Chosen(u)' <=> Chosen(u)) /\ (Expired(u)' <=> Expired(u))
      BY <1>0 DEF Chosen, Expired
    <3>2. \A u \in Candidates : tree[u].left = 0 => tree'[u].left = 0
      BY <2>1, <1>2 DEF Candidates
    <3>3. AgeDone => AgeDone'
      BY <1>0, <3>1, <3>2 DEF AgeDone
    <3> QED BY <1>0, <1>1, <1>2, <3>1, <3>2, <3>3 DEF IInv, Phases, Starting, Deleting
  <2>6. Quiet'
    <3>1. cand \notin todo /\ todo \subseteq Trees
      BY DEF IInv, Order, TypeInv, Candidates
    <3> QED BY <1>0, <1>1, <1>2, <2>1, <3>1 DEF IInv, Quiet, Deleting
  <2>7. \A t \in Trees : Shrinks(t) => t = cand /\ tree[t].ino = proof[t].ino
    <3>1. \A u \in Trees : tree[u].left \in Nat
      BY DEF IInv, TypeInv, Tree
    <3>2. \A u \in Trees \ {cand} : tree'[u].left = tree[u].left
      BY <2>1
    <3>3. ASSUME NEW u \in Trees \ {cand}, Shrinks(u) PROVE FALSE
      <4>1. tree[u].left \in Nat /\ tree'[u].left = tree[u].left /\ tree'[u].left < tree[u].left
        BY <3>1, <3>2, <3>3 DEF Shrinks
      <4> QED BY <4>1
    <3> QED BY <1>2, <3>3
  <2> QED BY <2>2, <2>3, <2>4, <2>5, <2>6, <2>7 DEF IInv
<1>3. ASSUME UNCHANGED <<tree, use>> PROVE \A t \in Trees : ~Shrinks(t)
  <2>1. \A u \in Trees : tree[u].left \in Nat
    BY DEF IInv, TypeInv, Tree
  <2> QED BY <1>3, <2>1 DEF Shrinks
<1>4. CASE tree[cand].left = 0 /\ pc' = (IF pressure THEN "capacity" ELSE "age") /\ UNCHANGED <<tree, use>>
  <2>1. \A u : (Chosen(u)' <=> Chosen(u)) /\ (Expired(u)' <=> Expired(u)) /\ Fingerprint(u)' = Fingerprint(u)
    BY <1>0, <1>4 DEF Chosen, Expired, Fingerprint
  <2>2. TypeInv'
    BY <1>0, <1>4 DEF IInv, TypeInv
  <2>3. Order' /\ Proven' /\ RefusalHasCause' /\ Versions'
    BY <1>0, <1>4 DEF IInv, Order, Proven, Starting, RefusalHasCause, Versions
  <2>4. AgeDone => AgeDone'
    BY <1>0, <1>4, <2>1 DEF AgeDone
  <2>5. Phases'
    BY <1>0, <1>1, <1>4, <2>1, <2>4 DEF IInv, Phases, Starting, Deleting
  <2>6. Quiet'
    BY <1>0, <1>1, <1>4, <2>1 DEF IInv, Quiet, Deleting
  <2> QED BY <1>3, <1>4, <2>2, <2>3, <2>5, <2>6 DEF IInv
<1>5. CASE /\ Fingerprint(cand).ino # proof[cand].ino \/ Fingerprint(cand).ver # proof[cand].ver
           /\ pc' = "refused" /\ UNCHANGED <<tree, use>>
  <2>0. Fingerprint(cand).ino = tree[cand].ino /\ Fingerprint(cand).ver = tree[cand].ver
    BY <1>1 DEF IInv, TypeInv, Tree, Fingerprint
  <2>1. \A u : (Chosen(u)' <=> Chosen(u)) /\ (Expired(u)' <=> Expired(u)) /\ Fingerprint(u)' = Fingerprint(u)
    BY <1>0, <1>5 DEF Chosen, Expired, Fingerprint
  <2>2. TypeInv'
    BY <1>0, <1>5 DEF IInv, TypeInv
  <2>3. Order' /\ Proven' /\ Versions'
    BY <1>0, <1>5 DEF IInv, Order, Proven, Starting, Versions
  <2>4. AgeDone => AgeDone'
    BY <1>0, <1>5, <2>1 DEF AgeDone
  <2>5. Phases'
    BY <1>0, <1>5, <2>1, <2>4 DEF IInv, Phases, Starting, Deleting
  <2>6. Quiet' /\ RefusalHasCause'
    BY <1>0, <1>1, <1>5, <2>0, <2>1 DEF IInv, Quiet, Deleting, RefusalHasCause
  <2> QED BY <1>3, <1>5, <2>2, <2>3, <2>5, <2>6 DEF IInv
<1>6. \/ tree[cand].ino = proof[cand].ino /\ tree[cand].left > 0 /\ Unlink(cand, 1) /\ pc' = pc
      \/ ~(tree[cand].left > 0) /\ pc' = (IF pressure THEN "capacity" ELSE "age") /\ UNCHANGED <<tree, use>>
      \/ /\ Fingerprint(cand).ino # proof[cand].ino \/ Fingerprint(cand).ver # proof[cand].ver
         /\ pc' = "refused" /\ UNCHANGED <<tree, use>>
  BY Zenon DEF Remove, Refuse
<1>7. ~(tree[cand].left > 0) => tree[cand].left = 0
  BY <1>1
<1> QED BY <1>2, <1>4, <1>5, <1>6, <1>7

\* The native uv cleans its cache.
LEMMA CleanUvStep ==
  ASSUME IInv, CleanUv
  PROVE  IInv' /\ \A t \in Trees : Shrinks(t) => t = cand /\ t = Uv
<1> USE RetentionAssumption
<1>0. PICK n \in 0 .. tree[Uv].left :
        /\ pc = "remove" /\ cand = Uv /\ Unlink(Uv, n)
        /\ \/ n = tree[Uv].left /\ pc' = "finish" /\ UNCHANGED <<events, hit>>
           \/ events < MaxEvents /\ events' = events + 1 /\ hit' = TRUE /\ Refuse
        /\ UNCHANGED <<held, early, moved, gate, cand, busy, plan, dirty, gated>>
  BY DEF CleanUv
<1>1. /\ UNCHANGED <<held, early, moved, gate, cand, busy, uvBusy, unscanned, proof, todo,
                     pressure, dirty, gated>>
      /\ pc = "remove" /\ cand = Uv /\ events' \in Nat
      /\ (pc' = "finish" /\ hit' = hit) \/ (pc' = "refused" /\ hit')
  <2>1. UNCHANGED plan
    BY <1>0
  <2>2. events' \in Nat
    BY <1>0 DEF IInv, TypeInv
  <2>3. (pc' = "finish" /\ hit' = hit) \/ (pc' = "refused" /\ hit')
    BY <1>0 DEF Refuse
  <2> QED BY <1>0, <2>1, <2>2, <2>3 DEF plan
<1>2. /\ tree' \in [Trees -> Tree] /\ use' \in Int
      /\ \A u \in Trees : tree'[u].ino = tree[u].ino /\ tree'[u].ver = tree[u].ver
      /\ \A u \in Trees \ {Uv} : tree'[u].left = tree[u].left /\ Fingerprint(u)' = Fingerprint(u)
  BY <1>0, UnlinkEffect DEF IInv
<1>3. TypeInv'
  BY <1>1, <1>2 DEF IInv, TypeInv
<1>4. Order' /\ Proven'
  BY <1>1 DEF IInv, Order, Proven, Starting
<1>5. Versions'
  BY <1>1, <1>2 DEF IInv, Versions, TypeInv
<1>6. Phases'
  <2>1. \A u : (Chosen(u)' <=> Chosen(u)) /\ (Expired(u)' <=> Expired(u))
    BY <1>1 DEF Chosen, Expired
  <2>2. \A u \in Candidates : tree'[u].left = tree[u].left /\ u # Uv
    BY <1>2 DEF Candidates
  <2>3. AgeDone => AgeDone'
    BY <1>1, <2>1, <2>2 DEF AgeDone
  <2> QED BY <1>1, <2>1, <2>2, <2>3 DEF IInv, Phases, Starting, Deleting
<1>7. Quiet' /\ RefusalHasCause'
  <2>1. todo \subseteq Trees \ {Uv}
    BY DEF IInv, TypeInv, Candidates
  <2> QED BY <1>1, <1>2, <2>1 DEF IInv, Quiet, Order, Deleting, RefusalHasCause
<1>8. \A t \in Trees : Shrinks(t) => t = cand /\ t = Uv
  <2>1. \A u \in Trees : tree[u].left \in Nat
    BY DEF IInv, TypeInv, Tree
  <2> QED BY <1>1, <1>2, <2>1 DEF Shrinks
<1> QED BY <1>3, <1>4, <1>5, <1>6, <1>7, <1>8 DEF IInv

\* Another process opens, closes or hands over a tree, ends the admission or
\* fills the filesystem.
LEMMA HostStep ==
  ASSUME IInv,
         (\E t \in Trees \ Protected : Open(t) \/ Close(t) \/ HandOver(t)) \/ LoseGate \/ Grow
  PROVE  IInv' /\ \A t \in Trees : ~Shrinks(t)
<1>1. /\ UNCHANGED <<tree, pc, cand, busy, plan, gated, dirty>>
      /\ hit' /\ events' = events + 1 /\ pc # "refused"
  BY DEF Open, Close, HandOver, LoseGate, Grow, Event
<1>2. UNCHANGED <<uvBusy, unscanned, proof, todo, pressure>>
  BY <1>1 DEF plan
<1>3. /\ held' \subseteq Trees /\ early' \subseteq early /\ moved \subseteq moved' /\ moved' \subseteq Trees
      /\ use' \in Int /\ (gate' => gate)
  <2>1. ASSUME NEW t \in Trees \ Protected, Open(t) \/ Close(t) \/ HandOver(t)
        PROVE  /\ held' \subseteq Trees /\ early' \subseteq early /\ moved \subseteq moved'
               /\ moved' \subseteq Trees /\ use' = use /\ gate' = gate
    BY <2>1 DEF Open, Close, HandOver, IInv, TypeInv
  <2>2. ASSUME LoseGate PROVE UNCHANGED <<held, early, moved, use>> /\ ~gate'
    BY <2>2 DEF LoseGate
  <2>3. ASSUME Grow PROVE UNCHANGED <<held, early, moved, gate>> /\ use' = use + 1
    BY <2>3 DEF Grow
  <2> QED BY <2>1, <2>2, <2>3 DEF IInv, TypeInv
<1>4. TypeInv'
  BY <1>1, <1>2, <1>3 DEF IInv, TypeInv
<1>5. Order' /\ Versions' /\ Proven'
  BY <1>1, <1>2, <1>3 DEF IInv, Order, Versions, Proven, Starting
<1>6. Phases'
  BY <1>1, <1>2 DEF IInv, Phases, AgeDone, Starting, Deleting, Chosen, Expired
<1>7. Quiet' /\ RefusalHasCause'
  BY <1>1 DEF Quiet, RefusalHasCause
<1>8. \A t \in Trees : ~Shrinks(t)
  <2>1. \A u \in Trees : tree[u].left \in Nat
    BY DEF IInv, TypeInv, Tree
  <2> QED BY <1>1, <2>1 DEF Shrinks
<1> QED BY <1>4, <1>5, <1>6, <1>7, <1>8 DEF IInv

\* Another process writes to a tree or replaces it.
LEMMA ChangeStep ==
  ASSUME IInv, NEW t \in Trees \ Protected, Change(t)
  PROVE  IInv' /\ \A u \in Trees : ~Shrinks(u)
<1>0. PICK ino \in {tree[t].ino, tree[t].ino + 1} :
        /\ Event /\ tree[t].left > 0
        /\ tree' = [tree EXCEPT ![t].ino = ino, ![t].ver = @ + 1, ![t].newest = Now]
        /\ dirty' = IF Watched(t) THEN dirty \cup {t} ELSE dirty
        /\ UNCHANGED <<use, held, early, moved, gate>>
  BY DEF Change
<1>1. /\ UNCHANGED <<use, held, early, moved, gate, pc, cand, busy, plan, gated>>
      /\ hit' /\ events' = events + 1 /\ pc # "refused"
  BY <1>0 DEF Event
<1>2. UNCHANGED <<uvBusy, unscanned, proof, todo, pressure>>
  BY <1>1 DEF plan
<1>3. /\ tree \in [Trees -> Tree] /\ tree[t] \in Tree /\ tree[t].ver \in Nat /\ tree[t].ino \in Nat
      /\ \A u \in Trees : tree[u].left \in Nat
      /\ Now \in Nat
  BY RetentionAssumption DEF IInv, TypeInv, Tree
<1>4. /\ tree' \in [Trees -> Tree] /\ tree'[t].ver = tree[t].ver + 1
      /\ tree'[t].left = tree[t].left /\ \A u \in Trees \ {t} : tree'[u] = tree[u]
  <2> DEFINE new == [tree[t] EXCEPT !.ino = ino, !.ver = tree[t].ver + 1, !.newest = Now]
  <2>1. ino \in Nat
    BY <1>3, <1>0
  <2>a. tree[t] \in Tree /\ tree[t].ver + 1 \in Nat /\ Now \in Nat
    BY <1>3
  <2>2. new \in Tree /\ new.ver = tree[t].ver + 1 /\ new.left = tree[t].left
    BY <2>a, <2>1 DEF Tree
  <2>3. tree' = [tree EXCEPT ![t] = new]
    BY <1>0, <1>3 DEF Tree
  <2> HIDE DEF new
  <2> QED BY <1>3, <2>2, <2>3
<1>5. TypeInv'
  BY <1>0, <1>1, <1>2, <1>4 DEF IInv, TypeInv
<1>6. /\ dirty \subseteq dirty' /\ dirty' \subseteq dirty \cup {t}
      /\ t \in dirty' => t \in dirty \/ Watched(t)
  BY <1>0
<1>7. Order'
  <2>1. Watched(t) => t \notin unscanned /\ (t = Uv => cand = Uv)
    BY RetentionAssumption DEF IInv, TypeInv, Order, Watched, Candidates, Starting
  <2> QED BY <1>1, <1>2, <1>6, <2>1 DEF IInv, Order, Starting
<1>8. Proven'
  <2>1. pc \in {"gate2", "remove"} => cand \notin dirty'
    BY <1>6 DEF IInv, Proven, Watched, Order
  <2> QED BY <1>1, <2>1 DEF IInv, Proven
<1>9. Versions'
  BY <1>2, <1>3, <1>4, <1>6 DEF IInv, Versions, TypeInv, Tree
<1>10. Phases'
  <2>1. \A u : (Chosen(u)' <=> Chosen(u)) /\ (Expired(u)' <=> Expired(u))
    BY <1>2 DEF Chosen, Expired
  <2>2. \A u \in Candidates : tree'[u].left = tree[u].left
    BY <1>4 DEF Candidates
  <2>3. AgeDone => AgeDone'
    BY <1>2, <2>1, <2>2 DEF AgeDone
  <2> QED BY <1>1, <1>2, <2>1, <2>2, <2>3 DEF IInv, Phases, Starting, Deleting
<1>11. Quiet' /\ RefusalHasCause'
  BY <1>1 DEF Quiet, RefusalHasCause
<1>12. \A u \in Trees : ~Shrinks(u)
  <2>1. \A u \in Trees : tree'[u].left = tree[u].left
    BY <1>4
  <2>2. \A u \in Trees : tree[u].left \in Nat
    BY <1>3
  <2> QED BY <2>1, <2>2 DEF Shrinks
<1> QED BY <1>5, <1>7, <1>8, <1>9, <1>10, <1>11, <1>12 DEF IInv

\* Nothing changes.
LEMMA StutterStep ==
  ASSUME IInv, UNCHANGED vars
  PROVE  IInv'
<1>1. UNCHANGED host /\ UNCHANGED plan /\ UNCHANGED <<tree, use, pc, cand, busy, dirty, gated>>
  BY DEF vars
<1>2. UNCHANGED <<held, early, moved, gate, events, hit>> /\ UNCHANGED <<uvBusy, unscanned, proof, todo, pressure>>
  BY <1>1 DEF host, plan
<1>3. TypeInv' /\ Order' /\ Versions' /\ Proven'
  BY <1>1, <1>2 DEF IInv, TypeInv, Order, Versions, Proven, Starting
<1>5. Phases'
  BY <1>1, <1>2 DEF IInv, Phases, AgeDone, Starting, Deleting, Chosen, Expired
<1>6. Quiet' /\ RefusalHasCause'
  BY <1>1, <1>2 DEF IInv, Quiet, RefusalHasCause, Deleting, Fingerprint
<1> QED BY <1>3, <1>5, <1>6 DEF IInv

Moves == \/ Claim \/ List \/ Read \/ Scan \/ PickAge \/ Pressure \/ PickCapacity \/ UvProof
         \/ Gate1 \/ Prove \/ Gate2 \/ Finish

\* Every step keeps the invariant.
LEMMA Inductive == IInv /\ [Next]_vars => IInv'
<1> SUFFICES ASSUME IInv, [Next]_vars PROVE IInv'
  OBVIOUS
<1>1. CASE Moves
  BY <1>1, ClaimStep, ListStep, ReadStep, ScanStep, PickAgeStep, PressureStep, PickCapacityStep,
     UvProofStep, Gate1Step, ProveStep, Gate2Step, FinishStep DEF Moves
<1>2. CASE Remove \/ CleanUv
  BY <1>2, RemoveStep, CleanUvStep
<1>3. CASE (\E t \in Trees \ Protected : Open(t) \/ Close(t) \/ HandOver(t)) \/ LoseGate \/ Grow
  BY <1>3, HostStep
<1>4. ASSUME NEW t \in Trees \ Protected, Change(t) PROVE IInv'
  BY <1>4, ChangeStep
<1>5. CASE UNCHANGED vars
  BY <1>5, StutterStep
<1> QED BY <1>1, <1>2, <1>3, <1>4, <1>5 DEF Next, Moves

\* The invariant holds in every reachable state.
THEOREM Invariance == Spec => []IInv
BY InitInv, Inductive, PTL DEF Spec

\* Only the removal of a proven tree takes entries away: remove_tree from the
\* inode it was given, the native uv from its own cache.
LEMMA OnlyRemovalShrinks ==
  ASSUME IInv, Next, NEW t \in Trees, Shrinks(t)
  PROVE  t = cand /\ pc = "remove" /\ (t # Uv => tree[t].ino = proof[t].ino)
<1>1. ASSUME Moves PROVE FALSE
  <2>1. UNCHANGED tree
    BY <1>1 DEF Moves, Claim, List, Read, Scan, PickAge, Pressure, PickCapacity, UvProof, Gate1, Prove, Gate2, Finish
  <2>2. tree[t].left \in Nat
    BY DEF IInv, TypeInv, Tree
  <2> QED BY <2>1, <2>2 DEF Shrinks
<1>2. CASE Remove
  <2>1. pc = "remove"
    BY <1>2 DEF Remove
  <2> QED BY <1>2, <2>1, RemoveStep
<1>3. CASE CleanUv
  <2>1. pc = "remove"
    BY <1>3 DEF CleanUv
  <2> QED BY <1>3, <2>1, CleanUvStep
<1>4. ASSUME (\E u \in Trees \ Protected : Open(u) \/ Close(u) \/ HandOver(u)) \/ LoseGate \/ Grow PROVE FALSE
  BY <1>4, HostStep
<1>5. ASSUME NEW u \in Trees \ Protected, Change(u) PROVE FALSE
  BY <1>5, ChangeStep
<1> QED BY <1>1, <1>2, <1>3, <1>4, <1>5 DEF Next, Moves

-----------------------------------------------------------------------------
(* The properties *)

\* The admission stood when the proof of the deletion had been taken.
THEOREM Admitted == Spec => []AdmittedAtProof
<1>1. IInv => AdmittedAtProof
  BY DEF IInv, Proven, AdmittedAtProof
<1> QED BY Invariance, <1>1, PTL

\* A run refuses only for a cause outside it or for lack of space.
THEOREM RefusalsCaused == Spec => []RefusalHasCause
<1>1. IInv => RefusalHasCause
  BY DEF IInv
<1> QED BY Invariance, <1>1, PTL

\* Nothing is removed from a changed, replaced or protected tree.
THEOREM ProvenRemoved == Spec => OnlyProvenRemoved
<1> DEFINE A == \A t \in Trees : Shrinks(t) =>
                  t \notin dirty \cup Protected /\ (t # Uv => tree[t].ino = proof[t].ino)
<1>1. IInv /\ [Next]_vars => [A]_vars
  <2> SUFFICES ASSUME IInv, Next, NEW t \in Trees, Shrinks(t)
               PROVE  t \notin dirty \cup Protected /\ (t # Uv => tree[t].ino = proof[t].ino)
    OBVIOUS
  <2>1. t = cand /\ pc = "remove" /\ (t # Uv => tree[t].ino = proof[t].ino)
    BY OnlyRemovalShrinks
  <2>2. t \notin dirty
    BY <2>1 DEF IInv, Proven
  <2>3. t \notin Protected
    BY <2>1, RetentionAssumption DEF IInv, TypeInv, Candidates
  <2> QED BY <2>1, <2>2, <2>3
<1>2. Spec => [][A]_vars
  BY Invariance, <1>1, PTL DEF Spec
<1> QED BY <1>2 DEF OnlyProvenRemoved

\* Nothing is removed from a tree in use since before the last scan.
THEOREM HeldKept == Spec => HeldTreesKept
<1> DEFINE A == \A t \in Trees : Shrinks(t) => t \notin early \ moved
<1>1. IInv /\ [Next]_vars => [A]_vars
  <2> SUFFICES ASSUME IInv, Next, NEW t \in Trees, Shrinks(t) PROVE t \notin early \ moved
    OBVIOUS
  <2>1. t = cand /\ pc = "remove"
    BY OnlyRemovalShrinks
  <2> QED BY <2>1 DEF IInv, Proven
<1>2. Spec => [][A]_vars
  BY Invariance, <1>1, PTL DEF Spec
<1> QED BY <1>2 DEF HeldTreesKept

\* A tree that is not expired goes only under pressure and after all the
\* expired ones.
THEOREM AgeFirst == Spec => AgeBeforeCapacity
<1> DEFINE A == \A t \in Candidates : Shrinks(t) /\ ~Expired(t) =>
                  /\ pressure
                  /\ \A u \in Candidates : Chosen(u) /\ Expired(u) => tree[u].left = 0
<1>1. IInv /\ [Next]_vars => [A]_vars
  <2> SUFFICES ASSUME IInv, Next, NEW t \in Candidates, Shrinks(t), ~Expired(t)
               PROVE  /\ pressure
                      /\ \A u \in Candidates : Chosen(u) /\ Expired(u) => tree[u].left = 0
    OBVIOUS
  <2>1. t = cand /\ pc = "remove"
    BY OnlyRemovalShrinks DEF Candidates
  <2>2. cand # 0
    BY <2>1 DEF IInv, Order
  <2>3. pressure
    BY <2>1, <2>2 DEF IInv, Phases, Deleting
  <2> QED BY <2>3 DEF IInv, Phases, AgeDone
<1>2. Spec => [][A]_vars
  BY Invariance, <1>1, PTL DEF Spec
<1> QED BY <1>2 DEF AgeBeforeCapacity
=============================================================================
