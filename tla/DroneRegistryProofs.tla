------------------------ MODULE DroneRegistryProofs ------------------------
(***************************************************************************)
(* Theorems about the drone registry and the REST handlers over it, for    *)
(* any number of drones and events, every capacity and every threshold.    *)
(*                                                                         *)
(* The inductive invariant says, of every drone, what the alerts told and  *)
(* still to be told add up to, what its history and its state have in      *)
(* common, and where its last update is: with the reader of the channel or *)
(* on the way to it.                                                       *)
(***************************************************************************)
EXTENDS RestAPI, FunctionTheorems, FiniteSetTheorems, SequenceTheorems,
        WellFoundedInduction, TLAPS

EntryType == [at : Nat, armed : BOOLEAN, battery : {Nil, "set"}]

(* The lemmas about the operations of a buffer value.  The one buffer of   *)
(* RingBuffer and its pushes do not occur in them.                         *)
Ring == INSTANCE RingBufferProofs WITH
          Capacity <- HistorySize,
          ZeroEntry <- [at |-> 0, armed |-> FALSE, battery |-> Nil],
          HistoryEntry <- EntryType, MaxPushes <- 0, rb <- 0, pushed <- <<>>

CountersTyped ==
  /\ clock \in Nat
  /\ dropped \in BOOLEAN /\ panics \in Nat /\ applied \in Nat
  /\ newest \in [Drones -> Nat]
  /\ overtaken \subseteq Drones

DronesTyped ==
  /\ known \subseteq Drones /\ IsFiniteSet(known)
  /\ state \in [Drones -> StateType]
  /\ mirror \in [Drones -> StateType]

HistoryTyped == history \in [Drones -> Ring!Buffers(EntryType)]

QueuesTyped == outbox \in Seq(Updates) /\ updates \in Seq(Updates)

EmittedTyped == emitted \in [Drones -> [Alerts -> Nat]]

Typed == CountersTyped /\ DronesTyped /\ HistoryTyped /\ QueuesTyped /\ EmittedTyped

(* What waits in outbox differs in its drone or in its type. *)
OutboxDistinct ==
  \A i, j \in DOMAIN outbox :
    outbox[i].drone = outbox[j].drone /\ outbox[i].type = outbox[j].type => i = j

(* The alerts of a kind that were emitted, with the one that waits. *)
Waits(d, a) == \E i \in DOMAIN outbox : outbox[i].drone = d /\ outbox[i].type = a
Told(d, a) == emitted[d][a] + Count(Waits(d, a))

Balanced ==
  \A d \in Drones :
    /\ Told(d, "New") = Count(d \in known)
    /\ Told(d, "New") + Told(d, "Reconnect") - Told(d, "Disconnect")
         = Count(d \in Connected)
    /\ Told(d, "Armed") - Told(d, "Disarmed") = Count(d \in Armed)

(* A drone that was never heard of. *)
Unheard ==
  \A d \in Drones \ known :
    state[d] = NewState(0) /\ newest[d] = 0 /\ history[d].count = 0

LastHeard ==
  \A d \in known \ overtaken :
    state[d].lastSeen = newest[d] /\ state[d].firstSeen <= state[d].lastSeen

(* The history of a drone is no longer than its messages, and the position *)
(* of its state is the newest entry.                                       *)
Tracked ==
  \A d \in Drones :
    /\ history[d].count <= state[d].messages
    /\ state[d].gps # NoFix =>
         history[d].count >= 1 /\ Ring!Recent(history[d], 1).at = state[d].gps

Ordered ==
  \A d \in Drones \ overtaken : \A i \in 1 .. history[d].count :
    /\ Ring!Recent(history[d], i).at <= newest[d]
    /\ \A j \in 1 .. i :
         Ring!Recent(history[d], i).at <= Ring!Recent(history[d], j).at

(* The updates on their way to the reader. *)
Queue == updates \o outbox
Shows(i, d) == Queue[i].drone = d => Queue[i].state = state[d]

(* From some update of the drone on, if not from the reader's copy on, all *)
(* that comes of it is its state.                                          *)
Reaches(d) ==
  \/ mirror[d] = state[d] /\ \A j \in DOMAIN Queue : Shows(j, d)
  \/ \E i \in DOMAIN Queue :
       /\ Queue[i].drone = d
       /\ \A j \in DOMAIN Queue : j >= i => Shows(j, d)

Current == ~dropped /\ panics = 0 => \A d \in known : Reaches(d)

(* Sums over a finite set, as the folds of the registry's totals compute   *)
(* them: element by element, in the order in which CHOOSE finds them.      *)

Picked(s) == CHOOSE x \in s : TRUE

IsSum(F, g, S) ==
  F = [s \in SUBSET S |-> IF s = {} THEN 0 ELSE g[Picked(s)] + F[s \ {Picked(s)}]]

Sum(g, S) == (CHOOSE F : IsSum(F, g, S))[S]

Small(S, n) == {s \in SUBSET S : Cardinality(s) <= n}

(* The messages of the known drones are the events applied. *)
MessagesOf == [d \in Drones |-> state[d].messages]
Summed == applied = Sum(MessagesOf, known)

IInv ==
  /\ Typed /\ OutboxDistinct /\ Balanced /\ Unheard /\ LastHeard
  /\ Tracked /\ Ordered /\ Current /\ Summed
-----------------------------------------------------------------------------
(* Sums. *)

(* Induction over the naturals, for a set of them. *)
LEMMA NatSetInduction ==
  ASSUME NEW P, 0 \in P, \A n \in Nat : n \in P => n + 1 \in P
  PROVE  \A n \in Nat : n \in P
<1> DEFINE T == Nat \ P
<1>1. ASSUME T # {} PROVE FALSE
  <2>1. PICK x \in T : \A y \in T : ~(<<y, x>> \in OpToRel(<, Nat))
    BY <1>1, NatLessThanWellFounded, WFMin
  <2>2. x \in Nat /\ x # 0
    OBVIOUS
  <2>3. x - 1 \in Nat /\ x - 1 < x /\ x = (x - 1) + 1
    BY <2>2
  <2>4. x - 1 \in T
    BY <2>3
  <2>5. <<x - 1, x>> \in OpToRel(<, Nat)
    BY <2>2, <2>3 DEF OpToRel
  <2> QED  BY <2>1, <2>4, <2>5
<1> QED  BY <1>1

(* Taking an element away leaves a smaller set. *)
LEMMA SmallerSet ==
  ASSUME NEW S, IsFiniteSet(S), NEW n \in Nat, NEW s \in Small(S, n + 1), NEW x \in s
  PROVE  s \ {x} \in Small(S, n) /\ s \in SUBSET S /\ s \ {x} \in SUBSET S
<1>1. s \in SUBSET S /\ Cardinality(s) <= n + 1
  BY DEF Small
<1>2. IsFiniteSet(s)
  BY <1>1, FS_Subset
<1>3. Cardinality(s) \in Nat /\ Cardinality(s \ {x}) = Cardinality(s) - 1
  BY <1>2, FS_CardinalityType, FS_RemoveElement
<1>4. Cardinality(s \ {x}) <= n
  BY <1>1, <1>3
<1> QED  BY <1>1, <1>4 DEF Small

LEMMA SmallSets ==
  ASSUME NEW S, IsFiniteSet(S)
  PROVE  /\ Cardinality(S) \in Nat
         /\ \A s \in SUBSET S : s \in Small(S, Cardinality(S))
         /\ \A s \in Small(S, 0) : s = {}
         /\ \A n \in Nat : {} \in Small(S, n)
<1>1. Cardinality(S) \in Nat
  BY FS_CardinalityType
<1>2. ASSUME NEW s \in SUBSET S
      PROVE  /\ s \in Small(S, Cardinality(S))
             /\ s \in Small(S, 0) => s = {}
  <2>1. IsFiniteSet(s) /\ Cardinality(s) <= Cardinality(S)
    BY FS_Subset
  <2>2. Cardinality(s) \in Nat /\ (Cardinality(s) = 0 <=> s = {})
    BY <2>1, FS_CardinalityType, FS_EmptySet
  <2>3. s \in Small(S, 0) => Cardinality(s) = 0
    BY <2>2 DEF Small
  <2> QED  BY <2>1, <2>2, <2>3 DEF Small
<1>3. ASSUME NEW n \in Nat
      PROVE  {} \in Small(S, n)
  BY FS_EmptySet DEF Small
<1>4. Small(S, 0) \subseteq SUBSET S
  BY DEF Small
<1> QED  BY <1>1, <1>2, <1>3, <1>4

LEMMA PickedIn ==
  ASSUME NEW s, s # {}
  PROVE  Picked(s) \in s
<1> QED  BY DEF Picked

LEMMA SumExists ==
  ASSUME NEW S, IsFiniteSet(S), NEW g
  PROVE  \E F : IsSum(F, g, S)
<1> DEFINE Step(I, s) == IF s = {} THEN 0 ELSE g[Picked(s)] + I[s \ {Picked(s)}]
           P == {n \in Nat : \E I : \A s \in Small(S, n) : I[s] = Step(I, s)}
<1>1. 0 \in P
  <2>1. PICK I : I = [s \in SUBSET S |-> 0]
    OBVIOUS
  <2>2. \A s \in Small(S, 0) : I[s] = Step(I, s)
    BY <2>1, SmallSets
  <2> QED  BY <2>2
<1>2. ASSUME NEW n \in Nat, n \in P
      PROVE  n + 1 \in P
  <2>1. PICK I : \A s \in Small(S, n) : I[s] = Step(I, s)
    BY <1>2
  <2>2. PICK J : J = [s \in SUBSET S |-> IF s \in Small(S, n) THEN I[s] ELSE Step(I, s)]
    OBVIOUS
  <2>3. ASSUME NEW s \in Small(S, n + 1)
        PROVE  J[s] = Step(J, s)
    <3>1. s \in SUBSET S
      BY DEF Small
    <3>2. J[s] = Step(I, s)
      BY <2>1, <2>2, <3>1
    <3>3. CASE s = {}
      BY <3>2, <3>3
    <3>4. CASE s # {}
      <4>1. s \ {Picked(s)} \in Small(S, n) /\ s \ {Picked(s)} \in SUBSET S
        BY <3>4, PickedIn, SmallerSet
      <4>2. J[s \ {Picked(s)}] = I[s \ {Picked(s)}]
        BY <2>2, <4>1
      <4> QED  BY <3>2, <3>4, <4>2
    <3> QED  BY <3>3, <3>4
  <2>4. \E K : \A s \in Small(S, n + 1) : K[s] = Step(K, s)
    <3> HIDE DEF Step
    <3> QED  BY <2>3
  <2>5. n + 1 \in Nat
    OBVIOUS
  <2> HIDE DEF Step
  <2> QED  BY <2>4, <2>5, Zenon
<1> HIDE DEF P
<1>3. Cardinality(S) \in P
  BY <1>1, <1>2, SmallSets, NatSetInduction
<1>4. PICK I : \A s \in Small(S, Cardinality(S)) : I[s] = Step(I, s)
  BY <1>3 DEF P
<1>5. PICK F : F = [s \in SUBSET S |-> I[s]]
  OBVIOUS
<1>6. ASSUME NEW s \in SUBSET S
      PROVE  F[s] = Step(F, s)
  <2>1. F[s] = Step(I, s)
    BY <1>4, <1>5, SmallSets
  <2>2. s # {} => s \ {Picked(s)} \in SUBSET S
    OBVIOUS
  <2> QED  BY <1>5, <2>1, <2>2
<1>7. F = [s \in SUBSET S |-> Step(F, s)]
  BY <1>5, <1>6
<1> QED  BY <1>7 DEF IsSum

(* A sum may be taken in any order. *)
LEMMA SumAnyOrder ==
  ASSUME NEW S, IsFiniteSet(S), NEW g, \A x \in S : g[x] \in Int,
         NEW F, IsSum(F, g, S)
  PROVE  /\ F[{}] = 0
         /\ \A s \in SUBSET S : F[s] \in Int
         /\ \A s \in SUBSET S : \A x \in s : F[s] = g[x] + F[s \ {x}]
<1> DEFINE P == {n \in Nat : \A s \in Small(S, n) :
                   F[s] \in Int /\ \A x \in s : F[s] = g[x] + F[s \ {x}]}
<1>1. /\ F[{}] = 0
      /\ \A s \in SUBSET S : s # {} => F[s] = g[Picked(s)] + F[s \ {Picked(s)}]
  BY DEF IsSum
<1>2. 0 \in P
  <2>1. ASSUME NEW s \in Small(S, 0)
        PROVE  F[s] \in Int /\ \A x \in s : F[s] = g[x] + F[s \ {x}]
    BY <1>1, SmallSets
  <2> QED  BY <2>1
<1>3. ASSUME NEW n \in Nat, n \in P
      PROVE  n + 1 \in P
  <2>1. ASSUME NEW s \in Small(S, n + 1)
        PROVE  F[s] \in Int /\ \A x \in s : F[s] = g[x] + F[s \ {x}]
    <3>1. CASE s = {}
      BY <1>1, <3>1
    <3>2. CASE s # {}
      <4>1. PICK p : p = Picked(s)
        OBVIOUS
      <4>2. p \in s /\ s \in SUBSET S /\ s \ {p} \in Small(S, n)
        BY <3>2, <4>1, PickedIn, SmallerSet
      <4>3. /\ F[s] = g[p] + F[s \ {p}]
            /\ g[p] \in Int /\ F[s \ {p}] \in Int
        BY <1>1, <1>3, <3>2, <4>1, <4>2
      <4>4. ASSUME NEW x \in s, x # p
            PROVE  F[s] = g[x] + F[s \ {x}]
        <5>1. s \ {x} \in Small(S, n) /\ x \in s \ {p} /\ p \in s \ {x}
          BY <4>2, <4>4, SmallerSet
        <5>2. /\ F[s \ {p}] = g[x] + F[(s \ {p}) \ {x}]
              /\ F[s \ {x}] = g[p] + F[(s \ {x}) \ {p}]
          BY <1>3, <4>2, <5>1
        <5>3. (s \ {p}) \ {x} = (s \ {x}) \ {p}
          OBVIOUS
        <5>4. (s \ {p}) \ {x} \in Small(S, n)
          <6>1. s \ {p} \in Small(S, n + 1)
            <7>1. Cardinality(s \ {p}) \in Nat /\ s \ {p} \in SUBSET S
              BY <4>2, FS_Subset, FS_CardinalityType
            <7> QED  BY <4>2, <7>1 DEF Small
          <6> QED  BY <5>1, <6>1, SmallerSet
        <5>5. g[x] \in Int /\ F[(s \ {p}) \ {x}] \in Int
          BY <1>3, <4>2, <5>4
        <5>6. PICK t : t = F[(s \ {p}) \ {x}]
          OBVIOUS
        <5>7. F[s \ {p}] = g[x] + t /\ F[s \ {x}] = g[p] + t /\ t \in Int
          BY <5>2, <5>3, <5>5, <5>6
        <5> HIDE DEF P
        <5> QED  BY <4>3, <5>5, <5>7
      <4>5. F[s] \in Int
        BY <4>3
      <4> QED  BY <4>1, <4>3, <4>4, <4>5
    <3> QED  BY <3>1, <3>2
  <2> QED  BY <2>1
<1> HIDE DEF P
<1>4. Cardinality(S) \in P
  BY <1>2, <1>3, SmallSets, NatSetInduction
<1>5. \A s \in SUBSET S : F[s] \in Int /\ \A x \in s : F[s] = g[x] + F[s \ {x}]
  BY <1>4, SmallSets DEF P
<1> QED  BY <1>1, <1>5

(* A sum depends on the values summed and on nothing else. *)
LEMMA SumUnique ==
  ASSUME NEW S, IsFiniteSet(S), NEW R, S \subseteq R, NEW g, NEW h,
         \A x \in S : g[x] = h[x], NEW F, NEW G, IsSum(F, g, S), IsSum(G, h, R)
  PROVE  F[S] = G[S]
<1> DEFINE P == {n \in Nat : \A s \in Small(S, n) : F[s] = G[s]}
<1>1. /\ F[{}] = 0 /\ G[{}] = 0
      /\ \A s \in SUBSET S : s # {} =>
           /\ F[s] = g[Picked(s)] + F[s \ {Picked(s)}]
           /\ G[s] = h[Picked(s)] + G[s \ {Picked(s)}]
  BY DEF IsSum
<1>2. 0 \in P
  BY <1>1, SmallSets
<1>3. ASSUME NEW n \in Nat, n \in P
      PROVE  n + 1 \in P
  <2>1. ASSUME NEW s \in Small(S, n + 1)
        PROVE  F[s] = G[s]
    <3>1. CASE s = {}
      BY <1>1, <3>1
    <3>2. CASE s # {}
      <4>1. PICK p : p = Picked(s)
        OBVIOUS
      <4>2. p \in s /\ s \in SUBSET S /\ s \ {p} \in Small(S, n)
        BY <3>2, <4>1, PickedIn, SmallerSet
      <4>3. F[s \ {p}] = G[s \ {p}] /\ g[p] = h[p]
        BY <1>3, <4>2
      <4> QED  BY <1>1, <3>2, <4>1, <4>2, <4>3
    <3> QED  BY <3>1, <3>2
  <2> QED  BY <2>1
<1> HIDE DEF P
<1>4. Cardinality(S) \in P
  BY <1>2, <1>3, SmallSets, NatSetInduction
<1> QED  BY <1>4, SmallSets DEF P

LEMMA SumIs ==
  ASSUME NEW S, IsFiniteSet(S), NEW g
  PROVE  \E F : IsSum(F, g, S) /\ Sum(g, S) = F[S]
<1>1. IsSum(CHOOSE F : IsSum(F, g, S), g, S)
  BY SumExists
<1> QED  BY <1>1 DEF Sum

(* The sum over one element more, whatever the other values were called.   *)
LEMMA SumAdd ==
  ASSUME NEW S, IsFiniteSet(S), NEW x, x \notin S, NEW g, NEW h,
         \A y \in S : g[y] = h[y], \A y \in S \cup {x} : h[y] \in Int
  PROVE  Sum(h, S \cup {x}) = h[x] + Sum(g, S) /\ Sum(g, S) \in Int
<1>1. PICK F : IsSum(F, g, S) /\ Sum(g, S) = F[S]
  BY SumIs
<1>2. IsFiniteSet(S \cup {x})
  BY FS_AddElement
<1>3. PICK G : IsSum(G, h, S \cup {x}) /\ Sum(h, S \cup {x}) = G[S \cup {x}]
  BY <1>2, SumIs
<1>4. F[S] = G[S]
  BY <1>1, <1>3, SumUnique
<1>5. (S \cup {x}) \ {x} = S
  OBVIOUS
<1>6. G[S \cup {x}] = h[x] + G[S] /\ G[S] \in Int
  <2>0. \A y \in S \cup {x} : h[y] \in Int
    OBVIOUS
  <2>1. /\ \A s \in SUBSET (S \cup {x}) : G[s] \in Int
        /\ \A s \in SUBSET (S \cup {x}) : \A y \in s : G[s] = h[y] + G[s \ {y}]
    <3>1. PICK T : T = S \cup {x}
      OBVIOUS
    <3>2. IsFiniteSet(T) /\ IsSum(G, h, T) /\ \A y \in T : h[y] \in Int
      BY <1>2, <1>3, <2>0, <3>1
    <3>3. /\ \A s \in SUBSET T : G[s] \in Int
          /\ \A s \in SUBSET T : \A y \in s : G[s] = h[y] + G[s \ {y}]
      BY <3>2, SumAnyOrder
    <3> QED  BY <3>1, <3>3
  <2>2. /\ S \in SUBSET (S \cup {x}) /\ x \in S \cup {x}
        /\ S \cup {x} \in SUBSET (S \cup {x})
    OBVIOUS
  <2>3. G[S] \in Int
    BY <2>1, <2>2, Zenon
  <2>4. G[S \cup {x}] = h[x] + G[(S \cup {x}) \ {x}]
    BY <2>1, <2>2, Zenon
  <2> QED  BY <1>5, <2>3, <2>4, Zenon
<1> QED  BY <1>1, <1>3, <1>4, <1>6

(* The sum over a set counts those of its elements that are in another.    *)
LEMMA SumCounts ==
  ASSUME NEW S, IsFiniteSet(S), NEW A \in SUBSET S, NEW g,
         \A x \in S : g[x] = IF x \in A THEN 1 ELSE 0
  PROVE  Sum(g, S) = Cardinality(A)
<1>1. PICK F : IsSum(F, g, S) /\ Sum(g, S) = F[S]
  BY SumIs
<1> DEFINE P == {n \in Nat : \A s \in Small(S, n) : F[s] = Cardinality(s \cap A)}
<1>2. /\ F[{}] = 0
      /\ \A s \in SUBSET S : \A x \in s : F[s] = g[x] + F[s \ {x}]
  BY <1>1, SumAnyOrder
<1>3. 0 \in P
  <2>1. {} \cap A = {} /\ Cardinality({}) = 0
    BY FS_EmptySet
  <2> QED  BY <1>2, <2>1, SmallSets
<1>4. ASSUME NEW n \in Nat, n \in P
      PROVE  n + 1 \in P
  <2>1. ASSUME NEW s \in Small(S, n + 1)
        PROVE  F[s] = Cardinality(s \cap A)
    <3>1. CASE s = {}
      BY <1>2, <3>1, FS_EmptySet
    <3>2. CASE s # {}
      <4>1. PICK p \in s : TRUE
        BY <3>2
      <4>2. s \in SUBSET S /\ s \ {p} \in Small(S, n)
        BY SmallerSet
      <4>3. F[s] = g[p] + Cardinality((s \ {p}) \cap A)
        BY <1>2, <1>4, <4>2
      <4>4. IsFiniteSet(s \cap A)
        <5>1. s \cap A \in SUBSET S
          BY <4>2
        <5> QED  BY <5>1, FS_Subset
      <4>5. Cardinality(s \cap A) \in Nat
        BY <4>4, FS_CardinalityType
      <4>6. (s \ {p}) \cap A = (s \cap A) \ {p}
        OBVIOUS
      <4>7. Cardinality((s \cap A) \ {p})
              = IF p \in s \cap A THEN Cardinality(s \cap A) - 1
                ELSE Cardinality(s \cap A)
        BY <4>4, FS_RemoveElement
      <4>8. g[p] = IF p \in s \cap A THEN 1 ELSE 0
        BY <4>2
      <4>9. F[s] = g[p] + Cardinality((s \cap A) \ {p})
        BY <4>3, <4>6
      <4> HIDE DEF P
      <4> QED  BY <4>5, <4>7, <4>8, <4>9
    <3> QED  BY <3>1, <3>2
  <2> QED  BY <2>1
<1> HIDE DEF P
<1>5. Cardinality(S) \in P
  BY <1>3, <1>4, SmallSets, NatSetInduction
<1>6. F[S] = Cardinality(S \cap A) /\ S \cap A = A
  BY <1>5, SmallSets DEF P
<1> QED  BY <1>1, <1>6

LEMMA SumNone ==
  ASSUME NEW g
  PROVE  Sum(g, {}) = 0
<1>1. PICK F : IsSum(F, g, {}) /\ Sum(g, {}) = F[{}]
  BY SumIs, FS_EmptySet
<1> QED  BY <1>1, SumAnyOrder, FS_EmptySet
-----------------------------------------------------------------------------
(* The states of a drone.                                                  *)

LEMMA NewStateIs ==
  ASSUME NEW now \in Nat
  PROVE  /\ NewState(now) \in StateType
         /\ NewState(now).messages = 0
         /\ NewState(now).armed = FALSE
         /\ NewState(now).firstSeen = now
         /\ NewState(now).lastSeen = now
         /\ NewState(now).gps = NoFix
<1> QED  BY DEF NewState, StateType, Nil, NoFix

(* What a message leaves in the common fields. *)
LEMMA HeardIs ==
  ASSUME NEW s \in StateType, NEW now \in Nat
  PROVE  /\ Heard(s, now) \in StateType
         /\ Heard(s, now).connected = TRUE
         /\ Heard(s, now).armed = s.armed
         /\ Heard(s, now).firstSeen = s.firstSeen
         /\ Heard(s, now).lastSeen = now
         /\ Heard(s, now).messages = s.messages + 1
         /\ Heard(s, now).gps = s.gps
<1>1. s.messages \in Nat
  BY DEF StateType
<1>2. Heard(s, now)
        = [s EXCEPT !.connected = TRUE, !.lastSeen = now, !.messages = s.messages + 1]
  BY DEF Heard
<1>3. PICK t : t = [s EXCEPT !.connected = TRUE, !.lastSeen = now]
  OBVIOUS
<1>4. Heard(s, now) \in StateType
  <2>1. t \in StateType
    BY <1>3 DEF StateType
  <2>2. Heard(s, now) = [t EXCEPT !.messages = s.messages + 1]
    BY <1>2, <1>3 DEF StateType
  <2> QED  BY <1>1, <2>1, <2>2 DEF StateType
<1>5. /\ Heard(s, now).connected = TRUE
      /\ Heard(s, now).lastSeen = now
      /\ Heard(s, now).messages = s.messages + 1
  BY <1>1, <1>2 DEF StateType
<1>6. /\ Heard(s, now).armed = s.armed
      /\ Heard(s, now).firstSeen = s.firstSeen
      /\ Heard(s, now).gps = s.gps
  BY <1>1, <1>2 DEF StateType
<1> QED  BY <1>4, <1>5, <1>6

(* A payload changes the flag of a whole heartbeat, and the position, to   *)
(* that of the message or to none; the rest of the fields used below stay. *)
LEMMA WithPayloadIs ==
  ASSUME NEW s \in StateType, NEW p \in PayloadType
  PROVE  /\ WithPayload(s, p) \in StateType
         /\ WithPayload(s, p).connected = s.connected
         /\ WithPayload(s, p).firstSeen = s.firstSeen
         /\ WithPayload(s, p).lastSeen = s.lastSeen
         /\ WithPayload(s, p).messages = s.messages
         /\ WithPayload(s, p).armed
              = IF p.kind = "heartbeat" /\ ~p.short THEN p.armed ELSE s.armed
         /\ WithPayload(s, p).gps
              = IF p.kind # "gps" THEN s.gps ELSE IF p.short THEN NoFix ELSE s.lastSeen
<1>1. /\ p.kind \in {"heartbeat", "gps", "battery", "attitude", "raw"}
      /\ p.short \in BOOLEAN /\ p.armed \in BOOLEAN
  BY DEF PayloadType
<1>2. CASE p.kind = "raw"
  BY <1>2 DEF WithPayload
<1>3. CASE p.kind = "heartbeat"
  BY <1>1, <1>3 DEF WithPayload, StateType, Nil, NoFix
<1>4. CASE p.kind = "gps"
  BY <1>1, <1>4 DEF WithPayload, StateType, Nil, NoFix
<1>5. CASE p.kind = "battery"
  BY <1>1, <1>5 DEF WithPayload, StateType, Nil, NoFix
<1>6. CASE p.kind = "attitude"
  BY <1>1, <1>6 DEF WithPayload, StateType, Nil, NoFix
<1> QED  BY <1>1, <1>2, <1>3, <1>4, <1>5, <1>6

LEMMA OneUpdate ==
  ASSUME NEW u \in Updates
  PROVE  <<u>> \in Seq(Updates) /\ DOMAIN <<u>> = {1} /\ Len(<<u>>) = 1 /\ <<u>>[1] = u
<1>1. <<u>> \in Seq(Updates) /\ Len(<<u>>) = 1 /\ <<u>>[1] = u
  OBVIOUS
<1>2. DOMAIN <<u>> = 1 .. 1
  BY <1>1
<1> QED  BY <1>1, <1>2

LEMMA TwoUpdates ==
  ASSUME NEW u \in Updates, NEW v \in Updates
  PROVE  /\ <<u>> \o <<v>> \in Seq(Updates)
         /\ DOMAIN (<<u>> \o <<v>>) = {1, 2} /\ Len(<<u>> \o <<v>>) = 2
         /\ (<<u>> \o <<v>>)[1] = u /\ (<<u>> \o <<v>>)[2] = v
<1>1. PICK q : q = <<u>> \o <<v>>
  OBVIOUS
<1>2. <<u>> \in Seq(Updates) /\ <<v>> \in Seq(Updates)
  OBVIOUS
<1>3. q \in Seq(Updates) /\ Len(q) = 2 /\ q[1] = u /\ q[2] = v
  BY <1>1, <1>2
<1>4. DOMAIN q = 1 .. 2
  BY <1>3
<1> QED  BY <1>1, <1>3, <1>4

(* Updates of one drone, at most one of a kind, each for its reason, and   *)
(* the final state at the end.                                             *)
TellsEvent(q, d, p, isNew, s, heard, final) ==
  /\ q \in Seq(Updates)
  /\ \A i \in DOMAIN q : q[i].drone = d
  /\ \A i, j \in DOMAIN q : q[i].type = q[j].type => i = j
  /\ \A a \in Alerts :
       (\E i \in DOMAIN q : q[i].type = a)
         <=> \/ a = "New" /\ isNew
             \/ a = "Reconnect" /\ ~isNew /\ ~s.connected
             \/ ~Panics(p) /\ a = UpdateType(heard, p)
  /\ ~Panics(p) => Len(q) \in DOMAIN q /\ q[Len(q)].state = final

(* What ProcessEvent leaves in outbox. *)
LEMMA OutboxOfEvent ==
  ASSUME NEW d \in Drones, NEW p \in PayloadType, NEW isNew \in BOOLEAN,
         NEW s \in StateType, NEW heard \in StateType, NEW final \in StateType,
         NEW q, q = Announcement(d, isNew, s)
                      \o IF Panics(p) THEN <<>>
                         ELSE <<Update(d, UpdateType(heard, p), final)>>
  PROVE  TellsEvent(q, d, p, isNew, s, heard, final)
<1> USE DEF TellsEvent
<1>1. PICK ty : ty = UpdateType(heard, p)
  OBVIOUS
<1>2. ty \in {"Telemetry", "Armed", "Disarmed"}
  BY <1>1 DEF UpdateType
<1>3. PICK last : last = Update(d, ty, final)
  OBVIOUS
<1>4. last \in Updates /\ last.drone = d /\ last.type = ty /\ last.state = final
  BY <1>2, <1>3 DEF Update, Updates, Alerts
<1>5. PICK ann : ann = Announcement(d, isNew, s)
  OBVIOUS
<1>6. [s EXCEPT !.connected = TRUE] \in StateType
  BY DEF StateType
<1>7. \/ ~isNew /\ s.connected /\ ann = <<>>
      \/ \E u \in Updates :
           /\ ann = <<u>> /\ u.drone = d
           /\ \/ isNew /\ u.type = "New"
              \/ ~isNew /\ ~s.connected /\ u.type = "Reconnect"
  <2>1. CASE isNew
    <3>1. ann = <<Update(d, "New", s)>>
      BY <1>5, <2>1 DEF Announcement
    <3>2. Update(d, "New", s) \in Updates
      BY DEF Update, Updates, Alerts
    <3> QED  BY <2>1, <3>1, <3>2 DEF Update
  <2>2. CASE ~isNew /\ ~s.connected
    <3>1. PICK t : t = [s EXCEPT !.connected = TRUE]
      OBVIOUS
    <3>2. ann = <<Update(d, "Reconnect", t)>>
      BY <1>5, <2>2, <3>1 DEF Announcement
    <3>3. Update(d, "Reconnect", t) \in Updates
      BY <1>6, <3>1 DEF Update, Updates, Alerts
    <3> QED  BY <2>2, <3>2, <3>3 DEF Update
  <2>3. CASE ~isNew /\ s.connected
    BY <1>5, <2>3 DEF Announcement
  <2> QED  BY <2>1, <2>2, <2>3
<1>8. q = ann \o IF Panics(p) THEN <<>> ELSE <<last>>
  BY <1>1, <1>3, <1>5
<1>9. CASE ann = <<>> /\ Panics(p)
  <2>0. q = <<>>
    <3>1. q = <<>> \o <<>>
      BY <1>8, <1>9
    <3>2. <<>> \in Seq(Updates)
      OBVIOUS
    <3> QED  BY <3>1, <3>2, ConcatEmptySeq
  <2>1. DOMAIN q = {} /\ q \in Seq(Updates)
    <3>1. DOMAIN <<>> = {} /\ <<>> \in Seq(Updates)
      OBVIOUS
    <3> QED  BY <2>0, <3>1
  <2>2. ~isNew /\ s.connected
    BY <1>7, <1>9
  <2> QED  BY <1>9, <2>1, <2>2
<1>10. CASE ann = <<>> /\ ~Panics(p)
  <2>0. q = <<last>>
    <3>1. q = <<>> \o <<last>>
      BY <1>8, <1>10
    <3>2. <<last>> \in Seq(Updates)
      BY <1>4
    <3> QED  BY <3>1, <3>2, ConcatEmptySeq
  <2>1. q \in Seq(Updates) /\ DOMAIN q = {1} /\ Len(q) = 1 /\ q[1] = last
    BY <1>4, <2>0, OneUpdate
  <2>2. ~isNew /\ s.connected
    BY <1>7, <1>10
  <2> QED  BY <1>1, <1>4, <1>10, <2>1, <2>2
<1>11. CASE ann # <<>>
  <2>1. PICK u \in Updates :
           /\ ann = <<u>> /\ u.drone = d
           /\ \/ isNew /\ u.type = "New"
              \/ ~isNew /\ ~s.connected /\ u.type = "Reconnect"
    BY <1>7, <1>11
  <2>2. CASE Panics(p)
    <3>1. q = <<u>>
      <4>1. q = <<u>> \o <<>>
        BY <1>8, <2>1, <2>2
      <4>2. <<u>> \in Seq(Updates)
        BY <2>1
      <4> QED  BY <4>1, <4>2, ConcatEmptySeq
    <3>2. q \in Seq(Updates) /\ DOMAIN q = {1} /\ Len(q) = 1 /\ q[1] = u
      BY <3>1, OneUpdate
    <3> QED  BY <2>1, <2>2, <3>2
  <2>3. CASE ~Panics(p)
    <3>1. q = <<u>> \o <<last>>
      BY <1>8, <2>1, <2>3
    <3>2. /\ q \in Seq(Updates) /\ DOMAIN q = {1, 2} /\ Len(q) = 2
          /\ q[1] = u /\ q[2] = last
      <4>1. last \in Updates
        BY <1>4
      <4>2. /\ <<u>> \o <<last>> \in Seq(Updates)
            /\ DOMAIN (<<u>> \o <<last>>) = {1, 2} /\ Len(<<u>> \o <<last>>) = 2
            /\ (<<u>> \o <<last>>)[1] = u /\ (<<u>> \o <<last>>)[2] = last
        BY <4>1, TwoUpdates
      <4> QED  BY <3>1, <4>2
    <3>3. u.type # last.type
      BY <1>2, <1>4, <2>1
    <3>4. \A i, j \in DOMAIN q : q[i].type = q[j].type => i = j
      BY <3>2, <3>3
    <3>5. ASSUME NEW a \in Alerts
          PROVE  (\E i \in DOMAIN q : q[i].type = a)
                   <=> \/ a = "New" /\ isNew
                       \/ a = "Reconnect" /\ ~isNew /\ ~s.connected
                       \/ ~Panics(p) /\ a = UpdateType(heard, p)
      <4>1. (\E i \in DOMAIN q : q[i].type = a) <=> u.type = a \/ last.type = a
        BY <3>2
      <4> QED  BY <1>1, <1>4, <2>1, <2>3, <4>1
    <3> QED  BY <1>4, <2>1, <3>2, <3>4, <3>5
  <2> QED  BY <2>2, <2>3
<1> QED  BY <1>9, <1>10, <1>11
-----------------------------------------------------------------------------
LEMMA InitIInv == Init => IInv
<1> SUFFICES ASSUME Init PROVE IInv
  OBVIOUS
<1> USE DEF Init
<1>1. CountersTyped
  BY DEF CountersTyped
<1>2. DronesTyped
  <2>1. NewState(0) \in StateType
    BY NewStateIs
  <2> QED  BY <2>1, FS_EmptySet DEF DronesTyped
<1>3. HistoryTyped
  <2>1. Buffer!NewRingBuffer \in Ring!Buffers(EntryType)
    BY RegistryAssumption
       DEF Buffer!NewRingBuffer, Ring!Buffers, EntryType, Nil, Buffer!Slots, Ring!Slots
  <2> QED  BY <2>1 DEF HistoryTyped
<1>4. QueuesTyped /\ EmittedTyped
  BY DEF QueuesTyped, EmittedTyped
<1>5. OutboxDistinct
  BY DEF OutboxDistinct
<1>6. Balanced
  BY DEF Balanced, Told, Waits, Count, Connected, Armed, Alerts
<1>7. Unheard
  BY DEF Unheard, Buffer!NewRingBuffer
<1>8. LastHeard /\ Current
  BY DEF LastHeard, Current
<1>9. Tracked /\ Ordered
  <2>1. NewState(0).messages = 0 /\ NewState(0).gps = NoFix
    BY NewStateIs
  <2> QED  BY <2>1 DEF Tracked, Ordered, Buffer!NewRingBuffer
<1>10. Summed
  BY SumNone DEF Summed
<1> QED  BY <1>1, <1>2, <1>3, <1>4, <1>5, <1>6, <1>7, <1>8, <1>9, <1>10 DEF IInv, Typed
-----------------------------------------------------------------------------
(* The queues, as emitUpdate and the reader move them. *)

LEMMA EmptyQueue ==
  ASSUME outbox = <<>>, NEW a, NEW d
  PROVE  ~Waits(d, a)
<1> QED  BY DEF Waits

(* What is left in an empty outbox comes behind the updates. *)
LEMMA QueueGrows ==
  ASSUME QueuesTyped, outbox = <<>>, updates' = updates, outbox' \in Seq(Updates)
  PROVE  /\ Queue = updates
         /\ Len(updates) \in Nat /\ Len(outbox') \in Nat
         /\ DOMAIN updates = 1 .. Len(updates)
         /\ DOMAIN outbox' = 1 .. Len(outbox')
         /\ DOMAIN Queue' = 1 .. Len(updates) + Len(outbox')
         /\ \A i \in 1 .. Len(updates) + Len(outbox') :
              Queue'[i] = IF i <= Len(updates) THEN updates[i]
                          ELSE outbox'[i - Len(updates)]
<1>1. updates \in Seq(Updates)
  BY DEF QueuesTyped
<1>2. PICK q : q = updates \o outbox'
  OBVIOUS
<1>3. /\ q \in Seq(Updates)
      /\ Len(q) = Len(updates) + Len(outbox')
      /\ \A i \in 1 .. Len(updates) + Len(outbox') :
           q[i] = IF i <= Len(updates) THEN updates[i] ELSE outbox'[i - Len(updates)]
  BY <1>1, <1>2, ConcatProperties
<1>4. Queue' = q
  BY <1>2 DEF Queue
<1>5. Queue = updates
  BY <1>1, ConcatEmptySeq DEF Queue
<1> QED  BY <1>1, <1>3, <1>4, <1>5

(* An update of another drone does not come in between. *)
LEMMA OthersReach ==
  ASSUME QueuesTyped, outbox = <<>>, updates' = updates, outbox' \in Seq(Updates),
         NEW c, Reaches(c), state'[c] = state[c], mirror'[c] = mirror[c],
         \A i \in DOMAIN outbox' : outbox'[i].drone # c
  PROVE  Reaches(c)'
<1>1. /\ Queue = updates
      /\ Len(updates) \in Nat /\ Len(outbox') \in Nat
      /\ DOMAIN updates = 1 .. Len(updates)
      /\ DOMAIN outbox' = 1 .. Len(outbox')
      /\ DOMAIN Queue' = 1 .. Len(updates) + Len(outbox')
      /\ \A i \in 1 .. Len(updates) + Len(outbox') :
           Queue'[i] = IF i <= Len(updates) THEN updates[i] ELSE outbox'[i - Len(updates)]
  BY QueueGrows
<1>2. ASSUME NEW j \in DOMAIN Queue', j \in DOMAIN updates => Shows(j, c)
      PROVE  Shows(j, c)'
  <2>1. CASE j <= Len(updates)
    BY <1>1, <1>2, <2>1 DEF Shows
  <2>2. CASE j > Len(updates)
    <3>1. Queue'[j] = outbox'[j - Len(updates)]
      BY <1>1, <2>2
    <3>2. j - Len(updates) \in DOMAIN outbox'
      BY <1>1, <2>2
    <3> QED  BY <3>1, <3>2 DEF Shows
  <2> QED  BY <1>1, <2>1, <2>2
<1>3. CASE mirror[c] = state[c] /\ \A j \in DOMAIN Queue : Shows(j, c)
  BY <1>1, <1>2, <1>3 DEF Reaches
<1>4. CASE \E i \in DOMAIN Queue :
             Queue[i].drone = c /\ \A j \in DOMAIN Queue : j >= i => Shows(j, c)
  <2>1. PICK i \in DOMAIN Queue :
          Queue[i].drone = c /\ \A j \in DOMAIN Queue : j >= i => Shows(j, c)
    BY <1>4
  <2>2. i \in DOMAIN Queue' /\ Queue'[i].drone = c
    BY <1>1, <2>1
  <2>3. \A j \in DOMAIN Queue' : j >= i => Shows(j, c)'
    BY <1>1, <1>2, <2>1
  <2> QED  BY <2>2, <2>3 DEF Reaches
<1> QED  BY <1>3, <1>4 DEF Reaches

(* What the registry pushes is a history entry. *)
LEMMA EntryIs ==
  ASSUME NEW s \in StateType, NEW now \in Nat
  PROVE  Entry(s, now) \in EntryType /\ Entry(s, now).at = now
<1> QED  BY DEF Entry, EntryType, StateType

LEMMA RecentTyped ==
  ASSUME HistoryTyped, NEW d \in Drones, NEW i \in 1 .. history[d].count
  PROVE  /\ Ring!Recent(history[d], i) \in EntryType
         /\ Ring!Recent(history[d], i).at \in Nat
<1>1. PICK b : b = history[d]
  OBVIOUS
<1>2. /\ b.entries \in [Ring!Slots -> EntryType] /\ b.head \in Ring!Slots
      /\ b.count \in 0 .. HistorySize
  BY <1>1 DEF HistoryTyped, Ring!Buffers
<1>3. Ring!Behind(b.head, i) \in Ring!Slots
  <2>1. i \in 1 .. HistorySize
    BY <1>1, <1>2, RegistryAssumption
  <2>2. Ring!Behind(b.head, i)
          = IF i <= b.head THEN b.head - i ELSE b.head - i + HistorySize
    BY <1>2, <2>1, RegistryAssumption, Ring!BehindValue DEF Ring!CapacityAssumption
  <2> QED  BY <1>2, <2>1, <2>2, RegistryAssumption DEF Ring!Slots
<1> QED  BY <1>1, <1>2, <1>3 DEF Ring!Recent, EntryType

LEMMA ProcessEventIInv ==
  ASSUME IInv, NEW d \in Drones, NEW p \in Payloads, NEW now \in 0 .. clock,
         ProcessEvent(d, p, now)
  PROVE  IInv'
<1> DEFINE isNew == d \notin known
<1>1. /\ Typed /\ CountersTyped /\ DronesTyped /\ HistoryTyped /\ QueuesTyped
      /\ EmittedTyped
  BY DEF IInv, Typed
<1>2. p \in PayloadType /\ now \in Nat /\ isNew \in BOOLEAN
  BY <1>1, PayloadsAssumption DEF CountersTyped
<1>3. PICK s : s = IF isNew THEN NewState(now) ELSE state[d]
  OBVIOUS
<1>4. PICK heard : heard = Heard(s, now)
  OBVIOUS
<1>5. PICK final : final = WithPayload(heard, p)
  OBVIOUS
<1>6. /\ known' = known \cup {d}
      /\ state' = [state EXCEPT ![d] = final]
      /\ history' = IF Records(p)
                    THEN [history EXCEPT ![d] = Ring!Push(history[d], Entry(heard, now))]
                    ELSE history
      /\ outbox' = Announcement(d, isNew, s)
                     \o IF Panics(p) THEN <<>>
                        ELSE <<Update(d, UpdateType(heard, p), final)>>
      /\ panics' = panics + IF Panics(p) THEN 1 ELSE 0
      /\ applied' = applied + 1
      /\ newest' = [newest EXCEPT ![d] = IF now > newest[d] THEN now ELSE newest[d]]
      /\ overtaken' = IF now < newest[d] THEN overtaken \cup {d} ELSE overtaken
      /\ outbox = <<>>
      /\ UNCHANGED <<clock, updates, dropped, emitted, mirror>>
  BY <1>3, <1>4, <1>5 DEF ProcessEvent, Ring!Push, Buffer!Push
<1> HIDE DEF isNew
<1>7. s \in StateType /\ (isNew => s.messages = 0 /\ ~s.armed /\ s.gps = NoFix
                                   /\ s.firstSeen = now)
  <2>1. CASE isNew
    BY <1>2, <1>3, <2>1, NewStateIs
  <2>2. CASE ~isNew
    BY <1>1, <1>3, <2>2 DEF DronesTyped
  <2> QED  BY <2>1, <2>2
<1>8. /\ heard \in StateType
      /\ heard.connected = TRUE /\ heard.armed = s.armed
      /\ heard.firstSeen = s.firstSeen /\ heard.lastSeen = now
      /\ heard.messages = s.messages + 1 /\ heard.gps = s.gps
  BY <1>2, <1>4, <1>7, HeardIs
<1>9. /\ final \in StateType
      /\ final.connected = TRUE
      /\ final.firstSeen = s.firstSeen /\ final.lastSeen = now
      /\ final.messages = s.messages + 1
      /\ final.armed = IF p.kind = "heartbeat" /\ ~p.short THEN p.armed ELSE s.armed
      /\ final.gps = IF p.kind # "gps" THEN s.gps ELSE IF p.short THEN NoFix ELSE now
  <2>1. /\ final \in StateType
        /\ final.connected = heard.connected
        /\ final.firstSeen = heard.firstSeen /\ final.lastSeen = heard.lastSeen
        /\ final.messages = heard.messages
        /\ final.armed = IF p.kind = "heartbeat" /\ ~p.short THEN p.armed
                         ELSE heard.armed
        /\ final.gps = IF p.kind # "gps" THEN heard.gps
                       ELSE IF p.short THEN NoFix ELSE heard.lastSeen
    BY <1>2, <1>5, <1>8, WithPayloadIs
  <2> QED  BY <1>8, <2>1
<1>10. /\ outbox' \in Seq(Updates)
       /\ \A i \in DOMAIN outbox' : outbox'[i].drone = d
       /\ \A i, j \in DOMAIN outbox' : outbox'[i].type = outbox'[j].type => i = j
       /\ \A a \in Alerts :
            (\E i \in DOMAIN outbox' : outbox'[i].type = a)
              <=> \/ a = "New" /\ isNew
                  \/ a = "Reconnect" /\ ~isNew /\ ~s.connected
                  \/ ~Panics(p) /\ a = UpdateType(heard, p)
       /\ ~Panics(p) => Len(outbox') \in DOMAIN outbox'
                        /\ outbox'[Len(outbox')].state = final
  <2>1. PICK q : q = outbox'
    OBVIOUS
  <2>2. q = Announcement(d, isNew, s)
              \o IF Panics(p) THEN <<>>
                 ELSE <<Update(d, UpdateType(heard, p), final)>>
    BY <1>6, <2>1
  <2>3. TellsEvent(q, d, p, isNew, s, heard, final)
    <3>1. /\ p \in PayloadType /\ isNew \in BOOLEAN
          /\ s \in StateType /\ heard \in StateType /\ final \in StateType
      BY <1>2, <1>7, <1>8, <1>9
    <3> QED  BY <2>2, <3>1, OutboxOfEvent
  <2> QED  BY <2>1, <2>3 DEF TellsEvent
<1>11. /\ \A c \in Drones : state'[c] = IF c = d THEN final ELSE state[c]
       /\ state' \in [Drones -> StateType]
       /\ \A c \in Drones :
            newest'[c] = IF c = d /\ now > newest[d] THEN now ELSE newest[c]
       /\ newest' \in [Drones -> Nat]
  BY <1>1, <1>2, <1>6, <1>9 DEF DronesTyped, CountersTyped
<1>12. PICK e : e = Entry(heard, now)
  OBVIOUS
<1>13. e \in EntryType /\ e.at = now
  BY <1>2, <1>8, <1>12, EntryIs
<1>14. PICK pushed : pushed = Ring!Push(history[d], e)
  OBVIOUS
<1>15. /\ pushed \in Ring!Buffers(EntryType)
       /\ pushed.count = IF history[d].count < HistorySize THEN history[d].count + 1
                         ELSE history[d].count
       /\ pushed.count >= 1
       /\ Ring!Recent(pushed, 1) = e
       /\ \A i \in 2 .. pushed.count :
            /\ i - 1 \in 1 .. history[d].count
            /\ Ring!Recent(pushed, i) = Ring!Recent(history[d], i - 1)
  <2>1. history[d] \in Ring!Buffers(EntryType)
    BY <1>1 DEF HistoryTyped
  <2> QED  BY <1>13, <1>14, <2>1, RegistryAssumption, Ring!PushIs
              DEF Ring!CapacityAssumption
<1>16. /\ history' \in [Drones -> Ring!Buffers(EntryType)]
       /\ \A c \in Drones :
            history'[c] = IF c = d /\ Records(p) THEN pushed ELSE history[c]
  BY <1>1, <1>6, <1>12, <1>14, <1>15 DEF HistoryTyped
<1>17. ASSUME NEW c \in Drones
       PROVE  history[c].count \in Nat
  BY <1>1 DEF HistoryTyped, Ring!Buffers
<1>18. Typed'
  <2>1. CountersTyped'
    BY <1>1, <1>2, <1>6, <1>11 DEF CountersTyped
  <2>2. DronesTyped'
    BY <1>1, <1>6, <1>11, FS_AddElement DEF DronesTyped
  <2>3. HistoryTyped'
    BY <1>16 DEF HistoryTyped
  <2>4. QueuesTyped' /\ EmittedTyped'
    BY <1>1, <1>6, <1>10 DEF QueuesTyped, EmittedTyped
  <2> QED  BY <2>1, <2>2, <2>3, <2>4 DEF Typed
<1>19. OutboxDistinct'
  BY <1>10 DEF OutboxDistinct
<1>20. Balanced'
  <2> SUFFICES ASSUME NEW c \in Drones
               PROVE  /\ Told(c, "New")' = Count(c \in known')
                      /\ Told(c, "New")' + Told(c, "Reconnect")' - Told(c, "Disconnect")'
                           = Count(c \in Connected')
                      /\ Told(c, "Armed")' - Told(c, "Disarmed")' = Count(c \in Armed')
    BY DEF Balanced
  <2>1. \A a \in Alerts : emitted[c][a] \in Nat
    BY <1>1 DEF EmittedTyped
  <2>2. /\ emitted[c]["New"] = Count(c \in known)
        /\ emitted[c]["New"] + emitted[c]["Reconnect"] - emitted[c]["Disconnect"]
             = Count(c \in Connected)
        /\ emitted[c]["Armed"] - emitted[c]["Disarmed"] = Count(c \in Armed)
    <3>1. \A a \in Alerts : Told(c, a) = emitted[c][a]
      BY <1>6, <2>1, EmptyQueue DEF Told, Count
    <3> QED  BY <3>1 DEF IInv, Balanced, Alerts
  <2>3. /\ c \in known' <=> c \in known \/ c = d
        /\ c \in Connected' <=> c \in known' /\ state'[c].connected
        /\ c \in Armed' <=> c \in known' /\ state'[c].armed
        /\ c \in Connected <=> c \in known /\ state[c].connected
        /\ c \in Armed <=> c \in known /\ state[c].armed
    BY <1>6 DEF Connected, Armed
  <2>4. CASE c # d
    <3>1. \A a \in Alerts : Told(c, a)' = emitted[c][a]
      BY <1>6, <1>10, <2>1, <2>4 DEF Told, Waits, Count
    <3>2. state'[c] = state[c]
      BY <1>11, <2>4
    <3> QED  BY <2>2, <2>3, <2>4, <3>1, <3>2 DEF Alerts
  <2>5. CASE c = d
    <3>1. UpdateType(heard, p)
            = IF p.kind # "heartbeat" \/ p.armed = s.armed THEN "Telemetry"
              ELSE IF p.armed THEN "Armed" ELSE "Disarmed"
      BY <1>8 DEF UpdateType
    <3>2. ASSUME NEW a \in Alerts
          PROVE  Told(c, a)' = emitted[c][a]
                   + Count(\/ a = "New" /\ isNew
                           \/ a = "Reconnect" /\ ~isNew /\ ~s.connected
                           \/ ~Panics(p) /\ a = UpdateType(heard, p))
      <4>1. Waits(c, a)' <=> \/ a = "New" /\ isNew
                             \/ a = "Reconnect" /\ ~isNew /\ ~s.connected
                             \/ ~Panics(p) /\ a = UpdateType(heard, p)
        BY <1>10, <2>5 DEF Waits
      <4>2. emitted' = emitted
        BY <1>6
      <4> QED  BY <4>1, <4>2 DEF Told, Count
    <3>3. /\ Told(c, "New")' = emitted[c]["New"] + Count(isNew)
          /\ Told(c, "Reconnect")'
               = emitted[c]["Reconnect"] + Count(~isNew /\ ~s.connected)
          /\ Told(c, "Disconnect")' = emitted[c]["Disconnect"]
      BY <2>1, <3>1, <3>2 DEF Alerts, Count
    <3>4. /\ Told(c, "Armed")' = emitted[c]["Armed"]
               + Count(p.kind = "heartbeat" /\ ~p.short /\ ~s.armed /\ p.armed)
          /\ Told(c, "Disarmed")' = emitted[c]["Disarmed"]
               + Count(p.kind = "heartbeat" /\ ~p.short /\ s.armed /\ ~p.armed)
      <4>1. p.armed \in BOOLEAN /\ s.armed \in BOOLEAN
        BY <1>2, <1>7 DEF PayloadType, StateType
      <4> QED  BY <2>1, <3>1, <3>2, <4>1 DEF Alerts, Count, Panics
    <3>5. /\ c \in known' /\ (c \in known <=> ~isNew)
          /\ c \in Connected'
          /\ c \in Armed' <=> IF p.kind = "heartbeat" /\ ~p.short THEN p.armed
                              ELSE s.armed
          /\ ~isNew => /\ c \in Connected <=> s.connected
                       /\ c \in Armed <=> s.armed
      BY <1>3, <1>9, <1>11, <2>3, <2>5 DEF isNew
    <3>6. isNew => ~s.armed /\ c \notin Connected /\ c \notin Armed
      BY <1>7, <2>3, <3>5
    <3> HIDE <3>2
    <3>7. /\ Told(c, "New")' = 1
          /\ Told(c, "New")' + Told(c, "Reconnect")' - Told(c, "Disconnect")' = 1
      BY <2>1, <2>2, <3>3, <3>5, <3>6 DEF Count, Alerts
    <3>8. Told(c, "Armed")' - Told(c, "Disarmed")' = Count(c \in Armed')
      BY <2>1, <2>2, <3>4, <3>5, <3>6 DEF Count, Alerts
    <3> QED  BY <3>5, <3>7, <3>8 DEF Count
  <2> QED  BY <2>4, <2>5
<1>21. Unheard'
  BY <1>6, <1>11, <1>16 DEF IInv, Unheard
<1>22. LastHeard'
  <2> SUFFICES ASSUME NEW c \in known' \ overtaken'
               PROVE  /\ state'[c].lastSeen = newest'[c]
                      /\ state'[c].firstSeen <= state'[c].lastSeen
    BY DEF LastHeard
  <2>1. CASE c # d
    <3>1. c \in known \ overtaken /\ c \in Drones
      BY <1>1, <1>6, <2>1 DEF DronesTyped
    <3> QED  BY <1>11, <2>1, <3>1 DEF IInv, LastHeard
  <2>2. CASE c = d
    <3>1. newest[d] \in Nat /\ now >= newest[d] /\ d \notin overtaken
      BY <1>1, <1>2, <1>6, <2>2 DEF CountersTyped
    <3>2. newest'[d] = now
      BY <1>2, <1>11, <3>1
    <3>3. s.firstSeen <= now
      <4>1. CASE isNew
        BY <1>2, <1>7, <4>1
      <4>2. CASE ~isNew
        <5>1. d \in known \ overtaken /\ s = state[d]
          BY <1>3, <3>1, <4>2 DEF isNew
        <5>2. s.firstSeen <= s.lastSeen /\ s.lastSeen = newest[d]
          BY <5>1 DEF IInv, LastHeard
        <5>3. s.firstSeen \in Nat
          BY <1>7 DEF StateType
        <5> QED  BY <1>2, <3>1, <5>2, <5>3
      <4> QED  BY <4>1, <4>2
    <3> QED  BY <1>9, <1>11, <2>2, <3>2, <3>3
  <2> QED  BY <2>1, <2>2
<1>23. Tracked'
  <2> SUFFICES ASSUME NEW c \in Drones
               PROVE  /\ history'[c].count <= state'[c].messages
                      /\ state'[c].gps # NoFix =>
                           /\ history'[c].count >= 1
                           /\ Ring!Recent(history'[c], 1).at = state'[c].gps
    BY DEF Tracked, Ring!Recent, Ring!Behind
  <2>1. CASE c # d
    BY <1>11, <1>16, <2>1 DEF IInv, Tracked
  <2>2. CASE c = d
    <3>1. /\ history[d].count <= s.messages
          /\ s.gps # NoFix => /\ history[d].count >= 1
                              /\ Ring!Recent(history[d], 1).at = s.gps
      <4>1. CASE isNew
        BY <1>7, <1>17, <4>1 DEF IInv, Unheard, isNew
      <4>2. CASE ~isNew
        BY <1>3, <4>2 DEF IInv, Tracked
      <4> QED  BY <4>1, <4>2
    <3>2. s.messages \in Nat
      BY <1>7 DEF StateType
    <3>3. CASE Records(p)
      BY <1>9, <1>11, <1>13, <1>15, <1>16, <1>17, <2>2, <3>1, <3>2, <3>3 DEF Records
    <3>4. CASE ~Records(p)
      BY <1>9, <1>11, <1>16, <1>17, <2>2, <3>1, <3>2, <3>4 DEF Records
    <3> QED  BY <3>3, <3>4
  <2> QED  BY <2>1, <2>2
<1>24. Ordered'
  <2> SUFFICES ASSUME NEW c \in Drones \ overtaken', NEW i \in 1 .. history'[c].count
               PROVE  /\ Ring!Recent(history'[c], i).at <= newest'[c]
                      /\ \A j \in 1 .. i : Ring!Recent(history'[c], i).at
                                             <= Ring!Recent(history'[c], j).at
    BY DEF Ordered, Ring!Recent, Ring!Behind
  <2>1. /\ c \notin overtaken
        /\ \A k \in 1 .. history[c].count :
             /\ Ring!Recent(history[c], k).at <= newest[c]
             /\ \A j \in 1 .. k : Ring!Recent(history[c], k).at
                                    <= Ring!Recent(history[c], j).at
    BY <1>6 DEF IInv, Ordered
  <2>2. CASE c # d
    BY <1>11, <1>16, <2>1, <2>2
  <2>3. CASE c = d /\ ~Records(p)
    <3>1. history'[c] = history[c]
      BY <1>16, <2>3
    <3>2. newest[c] \in Nat /\ newest'[c] >= newest[c] /\ newest'[c] \in Nat
      BY <1>1, <1>2, <1>11, <2>3 DEF CountersTyped
    <3>3. Ring!Recent(history[c], i).at \in Nat
      BY <1>1, <3>1, RecentTyped
    <3> QED  BY <2>1, <3>1, <3>2, <3>3
  <2>4. CASE c = d /\ Records(p)
    <3>1. history'[c] = pushed /\ i \in 1 .. pushed.count
      BY <1>16, <2>4
    <3>2. newest[d] \in Nat /\ newest[d] <= now /\ newest'[c] = now
      BY <1>1, <1>2, <1>6, <1>11, <2>4 DEF CountersTyped
    <3>3. ASSUME NEW k \in 1 .. pushed.count
          PROVE  /\ Ring!Recent(pushed, k).at \in Nat
                 /\ Ring!Recent(pushed, k).at <= now
      <4>1. CASE k = 1
        BY <1>2, <1>13, <1>15, <4>1
      <4>2. CASE k # 1
        <5>1. k \in 2 .. pushed.count
          BY <1>15, <1>17, <4>2
        <5>2. /\ k - 1 \in 1 .. history[d].count
              /\ Ring!Recent(pushed, k) = Ring!Recent(history[d], k - 1)
          BY <1>15, <5>1
        <5>3. Ring!Recent(history[d], k - 1).at \in Nat
          BY <1>1, <5>2, RecentTyped
        <5>4. Ring!Recent(history[d], k - 1).at <= newest[d]
          BY <2>1, <2>4, <5>2
        <5> QED  BY <1>2, <3>2, <5>2, <5>3, <5>4
      <4> QED  BY <4>1, <4>2
    <3>4. ASSUME NEW j \in 1 .. i
          PROVE  Ring!Recent(pushed, i).at <= Ring!Recent(pushed, j).at
      <4>1. CASE j = 1
        BY <1>13, <1>15, <3>1, <3>3, <4>1
      <4>2. CASE j # 1
        <5>1. i \in 2 .. pushed.count /\ j \in 2 .. pushed.count
          BY <1>15, <1>17, <3>1, <4>2
        <5>2. /\ i - 1 \in 1 .. history[d].count
              /\ Ring!Recent(pushed, i) = Ring!Recent(history[d], i - 1)
              /\ Ring!Recent(pushed, j) = Ring!Recent(history[d], j - 1)
          BY <1>15, <5>1
        <5>3. j - 1 \in 1 .. i - 1
          BY <3>1, <5>1
        <5> QED  BY <2>1, <2>4, <5>2, <5>3
      <4> QED  BY <4>1, <4>2
    <3> QED  BY <3>1, <3>2, <3>3, <3>4
  <2> QED  BY <2>2, <2>3, <2>4
<1>25. Current'
  <2> SUFFICES ASSUME ~dropped', panics' = 0, NEW c \in known'
               PROVE  Reaches(c)'
    BY DEF Current
  <2>1. ~dropped /\ panics = 0 /\ ~Panics(p)
    BY <1>1, <1>6 DEF CountersTyped
  <2>2. CASE c = d
    <3>1. /\ Len(updates) \in Nat /\ Len(outbox') \in Nat
          /\ DOMAIN outbox' = 1 .. Len(outbox')
          /\ DOMAIN Queue' = 1 .. Len(updates) + Len(outbox')
          /\ \A i \in 1 .. Len(updates) + Len(outbox') :
               Queue'[i] = IF i <= Len(updates) THEN updates[i]
                           ELSE outbox'[i - Len(updates)]
      BY <1>1, <1>6, <1>10, QueueGrows
    <3>2. PICK n : n = Len(updates) + Len(outbox')
      OBVIOUS
    <3>3. n \in DOMAIN Queue' /\ Queue'[n].drone = d /\ Queue'[n].state = final
      <4>1. Len(outbox') \in DOMAIN outbox' /\ outbox'[Len(outbox')].state = final
        BY <1>10, <2>1
      <4>2. outbox'[Len(outbox')].drone = d
        BY <1>10, <4>1
      <4> QED  BY <3>1, <3>2, <4>1, <4>2
    <3>4. \A j \in DOMAIN Queue' : j >= n => j = n
      BY <3>1, <3>2
    <3>5. \A j \in DOMAIN Queue' : j >= n => Shows(j, c)'
      BY <1>11, <2>2, <3>3, <3>4 DEF Shows
    <3> QED  BY <2>2, <3>3, <3>5 DEF Reaches
  <2>3. CASE c # d
    <3>1. c \in known /\ c \in Drones
      BY <1>1, <1>6, <2>3 DEF DronesTyped
    <3>2. Reaches(c)
      BY <2>1, <3>1 DEF IInv, Current
    <3>3. state'[c] = state[c] /\ mirror'[c] = mirror[c]
      BY <1>6, <1>11, <2>3, <3>1
    <3>4. \A i \in DOMAIN outbox' : outbox'[i].drone # c
      BY <1>10, <2>3
    <3> QED  BY <1>1, <1>6, <1>10, <3>2, <3>3, <3>4, OthersReach
  <2> QED  BY <2>2, <2>3
<1>26. Summed'
  <2> DEFINE others == known \ {d}
  <2>1. PICK new : new = MessagesOf'
    OBVIOUS
  <2>2. PICK old : old = MessagesOf
    OBVIOUS
  <2>3. /\ \A c \in Drones : old[c] = state[c].messages /\ old[c] \in Int
        /\ \A c \in Drones : new[c] = state'[c].messages /\ new[c] \in Int
    BY <1>1, <1>11, <2>1, <2>2 DEF MessagesOf, DronesTyped, StateType
  <2>4. \A c \in others : old[c] = new[c]
    BY <1>1, <1>11, <2>3 DEF DronesTyped
  <2>5. IsFiniteSet(others) /\ d \notin others /\ others \subseteq Drones
    BY <1>1, FS_RemoveElement DEF DronesTyped
  <2>6. new[d] = s.messages + 1 /\ s.messages \in Int
    BY <1>7, <1>9, <1>11, <2>3 DEF StateType
  <2>7. known' = others \cup {d}
    BY <1>6
  <2>8. Sum(new, others \cup {d}) = new[d] + Sum(old, others) /\ Sum(old, others) \in Int
    BY <2>3, <2>4, <2>5, SumAdd
  <2>9. applied = Sum(old, known)
    BY <2>2 DEF IInv, Summed
  <2>10. Sum(old, known) = s.messages + Sum(old, others)
    <3>1. CASE isNew
      <4>1. others = known
        BY <3>1 DEF isNew
      <4> QED  BY <1>7, <2>8, <3>1, <4>1
    <3>2. CASE ~isNew
      <4>1. known = others \cup {d} /\ s = state[d]
        BY <1>3, <3>2 DEF isNew
      <4>2. Sum(old, others \cup {d}) = old[d] + Sum(old, others)
        BY <2>3, <2>5, SumAdd
      <4> QED  BY <2>3, <4>1, <4>2
    <3> QED  BY <3>1, <3>2
  <2> HIDE DEF others
  <2>11. applied + 1 = Sum(new, known')
    BY <2>6, <2>7, <2>8, <2>9, <2>10
  <2> QED  BY <1>6, <2>1, <2>11 DEF Summed
<1> QED  BY <1>18, <1>19, <1>20, <1>21, <1>22, <1>23, <1>24, <1>25, <1>26 DEF IInv

LEMMA emitUpdateIInv ==
  ASSUME IInv, emitUpdate
  PROVE  IInv'
<1>1. /\ Typed /\ CountersTyped /\ DronesTyped /\ HistoryTyped /\ QueuesTyped
      /\ EmittedTyped
  BY DEF IInv, Typed
<1>2. PICK u : u = Head(outbox)
  OBVIOUS
<1>3. /\ outbox # <<>>
      /\ updates' = IF Len(updates) < UpdatesCap THEN Append(updates, u) ELSE updates
      /\ dropped' = (dropped \/ ~(Len(updates) < UpdatesCap))
      /\ emitted' = IF u.type \in Alerts
                    THEN [emitted EXCEPT ![u.drone][u.type] = @ + 1] ELSE emitted
      /\ outbox' = Tail(outbox)
      /\ UNCHANGED <<clock, known, state, history, panics, applied, newest, overtaken,
                     mirror>>
  BY <1>2 DEF emitUpdate
<1>4. /\ outbox \in Seq(Updates) /\ outbox' \in Seq(Updates) /\ u \in Updates
      /\ Len(outbox) \in Nat /\ Len(outbox') = Len(outbox) - 1 /\ Len(outbox) >= 1
      /\ DOMAIN outbox = 1 .. Len(outbox) /\ DOMAIN outbox' = 1 .. Len(outbox')
      /\ u = outbox[1]
      /\ \A i \in 1 .. Len(outbox') : outbox'[i] = outbox[i + 1]
  <2>1. outbox \in Seq(Updates)
    BY <1>1 DEF QueuesTyped
  <2>2. PICK q : q = Tail(outbox)
    OBVIOUS
  <2>3. /\ q \in Seq(Updates) /\ u \in Updates /\ Len(q) = Len(outbox) - 1
        /\ \A i \in 1 .. Len(q) : q[i] = outbox[i + 1]
    BY <1>2, <1>3, <2>1, <2>2, HeadTailProperties
  <2> QED  BY <1>2, <1>3, <2>1, <2>2, <2>3
<1>5. Typed'
  <2>1. CountersTyped' /\ DronesTyped' /\ HistoryTyped'
    BY <1>1, <1>3 DEF CountersTyped, DronesTyped, HistoryTyped
  <2>2. QueuesTyped'
    BY <1>1, <1>3, <1>4 DEF QueuesTyped
  <2>3. EmittedTyped'
    BY <1>1, <1>3, <1>4 DEF EmittedTyped, Updates
  <2> QED  BY <2>1, <2>2, <2>3 DEF Typed
<1>6. OutboxDistinct'
  <2> SUFFICES ASSUME NEW i \in DOMAIN outbox', NEW j \in DOMAIN outbox',
                      outbox'[i].drone = outbox'[j].drone,
                      outbox'[i].type = outbox'[j].type
               PROVE  i = j
    BY DEF OutboxDistinct
  <2>1. i + 1 \in DOMAIN outbox /\ j + 1 \in DOMAIN outbox
    BY <1>4
  <2>2. i + 1 = j + 1
    BY <1>4, <2>1 DEF IInv, OutboxDistinct
  <2> QED  BY <1>4, <2>2
<1>7. ASSUME NEW d \in Drones, NEW a \in Alerts
      PROVE  Told(d, a)' = Told(d, a)
  <2>1. emitted[d][a] \in Nat
    BY <1>1 DEF EmittedTyped
  <2>2. Waits(d, a) <=> (u.drone = d /\ u.type = a) \/ Waits(d, a)'
    <3>1. ASSUME Waits(d, a)'
          PROVE  Waits(d, a)
      <4>1. PICK i \in DOMAIN outbox' : outbox'[i].drone = d /\ outbox'[i].type = a
        BY <3>1 DEF Waits
      <4>2. i + 1 \in DOMAIN outbox /\ outbox[i + 1] = outbox'[i]
        BY <1>4
      <4> QED  BY <4>1, <4>2 DEF Waits
    <3>2. ASSUME Waits(d, a), ~(u.drone = d /\ u.type = a)
          PROVE  Waits(d, a)'
      <4>1. PICK i \in DOMAIN outbox : outbox[i].drone = d /\ outbox[i].type = a
        BY <3>2 DEF Waits
      <4>2. i # 1
        BY <1>4, <3>2, <4>1
      <4>3. i - 1 \in DOMAIN outbox' /\ outbox'[i - 1] = outbox[i]
        BY <1>4, <4>2
      <4> QED  BY <4>1, <4>3 DEF Waits
    <3>3. 1 \in DOMAIN outbox
      BY <1>4
    <3>4. u.drone = d /\ u.type = a => Waits(d, a)
      BY <1>4, <3>3 DEF Waits
    <3> QED  BY <3>1, <3>2, <3>4
  <2>3. CASE u.drone = d /\ u.type = a
    <3>1. ~Waits(d, a)'
      <4> SUFFICES ASSUME NEW i \in DOMAIN outbox',
                          outbox'[i].drone = d, outbox'[i].type = a
                   PROVE  FALSE
        BY DEF Waits
      <4>1. i + 1 \in DOMAIN outbox /\ 1 \in DOMAIN outbox /\ i + 1 # 1
        BY <1>4
      <4>2. outbox[i + 1].drone = d /\ outbox[i + 1].type = a
        BY <1>4
      <4> QED  BY <1>4, <2>3, <4>1, <4>2 DEF IInv, OutboxDistinct
    <3>2. emitted'[d][a] = emitted[d][a] + 1
      BY <1>1, <1>3, <2>3 DEF EmittedTyped
    <3> QED  BY <2>1, <2>2, <2>3, <3>1, <3>2 DEF Told, Count
  <2>4. CASE ~(u.drone = d /\ u.type = a)
    <3>1. emitted'[d][a] = emitted[d][a]
      BY <1>1, <1>3, <1>4, <2>4 DEF EmittedTyped, Updates
    <3>2. Waits(d, a)' <=> Waits(d, a)
      BY <2>2, <2>4
    <3> QED  BY <2>1, <3>1, <3>2 DEF Told, Count
  <2> QED  BY <2>3, <2>4
<1>8. Balanced'
  BY <1>3, <1>7 DEF IInv, Balanced, Connected, Armed, Alerts
<1>9. Unheard' /\ LastHeard' /\ Tracked' /\ Ordered' /\ Summed'
  BY <1>3 DEF IInv, Unheard, LastHeard, Tracked, Ordered, Ring!Recent, Ring!Behind,
              Summed, MessagesOf
<1>10. Current'
  <2> SUFFICES ASSUME ~dropped', panics' = 0, NEW d \in known'
               PROVE  Reaches(d)'
    BY DEF Current
  <2>1. ~dropped /\ panics = 0 /\ updates' = Append(updates, u)
    BY <1>1, <1>3 DEF CountersTyped
  <2>2. Queue' = Queue
    <3>1. PICK v : v = Append(updates, u)
      OBVIOUS
    <3>2. PICK t : t = Tail(outbox)
      OBVIOUS
    <3>3. PICK q : q = updates \o outbox
      OBVIOUS
    <3>4. PICK r : r = v \o t
      OBVIOUS
    <3>5. /\ updates \in Seq(Updates) /\ v \in Seq(Updates) /\ t \in Seq(Updates)
          /\ Len(v) = Len(updates) + 1 /\ v[Len(updates) + 1] = u
          /\ \A i \in 1 .. Len(updates) : v[i] = updates[i]
          /\ Len(t) = Len(outbox) - 1
          /\ \A i \in 1 .. Len(t) : t[i] = outbox[i + 1]
          /\ Len(updates) \in Nat /\ Len(outbox) \in Nat /\ Len(outbox) >= 1
          /\ u = outbox[1]
      BY <1>1, <1>3, <1>4, <3>1, <3>2 DEF QueuesTyped
    <3>6. /\ q \in Seq(Updates) /\ Len(q) = Len(updates) + Len(outbox)
          /\ \A i \in 1 .. Len(updates) + Len(outbox) :
               q[i] = IF i <= Len(updates) THEN updates[i] ELSE outbox[i - Len(updates)]
      BY <1>4, <3>3, <3>5, ConcatProperties
    <3>7. /\ r \in Seq(Updates) /\ Len(r) = Len(v) + Len(t)
          /\ \A i \in 1 .. Len(v) + Len(t) :
               r[i] = IF i <= Len(v) THEN v[i] ELSE t[i - Len(v)]
      BY <3>4, <3>5, ConcatProperties
    <3>8. /\ Len(q) = Len(r)
          /\ Len(v) + Len(t) = Len(updates) + Len(outbox)
      BY <3>5, <3>6, <3>7
    <3>9. ASSUME NEW i \in 1 .. Len(q)
          PROVE  q[i] = r[i]
      <4>0. /\ i \in 1 .. Len(updates) + Len(outbox) /\ i \in 1 .. Len(v) + Len(t)
            /\ i \in Nat
        BY <3>6, <3>8
      <4>1. CASE i <= Len(updates)
        <5>1. i \in 1 .. Len(updates) /\ i <= Len(v)
          BY <3>5, <4>0, <4>1
        <5>2. q[i] = updates[i]
          BY <3>6, <4>0, <4>1, Zenon
        <5>3. r[i] = v[i]
          BY <3>7, <4>0, <5>1, Zenon
        <5> QED  BY <3>5, <5>1, <5>2, <5>3
      <4>2. CASE i = Len(updates) + 1
        <5>1. i - Len(updates) = 1 /\ ~(i <= Len(updates)) /\ i <= Len(v)
          BY <3>5, <4>0, <4>2
        <5>2. q[i] = outbox[i - Len(updates)]
          BY <3>6, <4>0, <5>1, Zenon
        <5>3. r[i] = v[i]
          BY <3>7, <4>0, <5>1, Zenon
        <5> QED  BY <3>5, <4>2, <5>1, <5>2, <5>3
      <4>3. CASE i > Len(updates) + 1
        <5>1. ~(i <= Len(updates)) /\ ~(i <= Len(v))
          BY <3>5, <4>0, <4>3
        <5>2. q[i] = outbox[i - Len(updates)] /\ r[i] = t[i - Len(v)]
          BY <3>6, <3>7, <4>0, <5>1
        <5>3. i - Len(v) \in 1 .. Len(t) /\ i - Len(v) + 1 = i - Len(updates)
          BY <3>5, <4>0, <4>3
        <5> QED  BY <3>5, <5>2, <5>3
      <4> QED  BY <3>5, <4>0, <4>1, <4>2, <4>3
    <3>10. q = r
      BY <3>6, <3>7, <3>8, <3>9, SeqEqual
    <3> QED  BY <1>3, <2>1, <3>1, <3>2, <3>3, <3>4, <3>10 DEF Queue
  <2>3. Reaches(d)
    BY <1>3, <2>1 DEF IInv, Current
  <2> QED  BY <1>3, <2>2, <2>3 DEF Reaches, Shows
<1> QED  BY <1>5, <1>6, <1>8, <1>9, <1>10 DEF IInv

LEMMA checkStaleIInv ==
  ASSUME IInv, checkStale
  PROVE  IInv'
<1>1. /\ Typed /\ CountersTyped /\ DronesTyped /\ HistoryTyped /\ QueuesTyped
      /\ EmittedTyped
  BY DEF IInv, Typed
<1>2. PICK order \in Orders(Stale) :
        /\ outbox = <<>>
        /\ state' = [d \in Drones |-> IF d \in Stale THEN Disconnected(d) ELSE state[d]]
        /\ outbox' = [i \in DOMAIN order |->
                        Update(order[i], "Disconnect", Disconnected(order[i]))]
        /\ UNCHANGED <<clock, known, history, updates, dropped, panics, applied, newest,
                       overtaken, emitted, mirror>>
  BY DEF checkStale
<1>3. PICK n : n = Cardinality(Stale)
  OBVIOUS
<1>4. /\ Stale \subseteq known /\ Stale \subseteq Drones
      /\ n \in Nat /\ IsFiniteSet(Stale)
  <2>1. Stale \subseteq known
    BY DEF Stale
  <2>2. IsFiniteSet(Stale)
    BY <1>1, <2>1, FS_Subset DEF DronesTyped
  <2> QED  BY <1>1, <1>3, <2>1, <2>2, FS_CardinalityType DEF DronesTyped
<1>5. /\ order \in [1 .. n -> Stale]
      /\ \A d \in Stale : \E i \in 1 .. n : order[i] = d
  BY <1>2, <1>3 DEF Orders
<1>6. \A i, j \in 1 .. n : order[i] = order[j] => i = j
  <2>1. order \in Surjection(1 .. n, Stale)
    BY <1>5, Fun_IsSurj
  <2>2. IsFiniteSet(1 .. n) /\ Cardinality(1 .. n) = n
    BY <1>4, FS_Interval
  <2>3. order \in Injection(1 .. n, Stale)
    BY <1>3, <2>1, <2>2, FS_SurjSameCardinalityImpliesInj
  <2> QED  BY <2>3, Fun_InjectionProperties
<1>7. ASSUME NEW d \in Stale
      PROVE  /\ Disconnected(d) \in StateType
             /\ Disconnected(d).connected = FALSE
             /\ Disconnected(d).armed = state[d].armed
             /\ Disconnected(d).firstSeen = state[d].firstSeen
             /\ Disconnected(d).lastSeen = state[d].lastSeen
             /\ Disconnected(d).messages = state[d].messages
             /\ Disconnected(d).gps = state[d].gps
  <2>1. state[d] \in StateType
    BY <1>1, <1>4 DEF DronesTyped
  <2> QED  BY <2>1 DEF Disconnected, StateType
<1>8. /\ DOMAIN outbox' = 1 .. n /\ outbox' \in Seq(Updates) /\ Len(outbox') = n
      /\ \A i \in 1 .. n : /\ outbox'[i].drone = order[i]
                           /\ outbox'[i].type = "Disconnect"
                           /\ outbox'[i].state = Disconnected(order[i])
  <2>1. outbox' = [i \in 1 .. n |->
                     Update(order[i], "Disconnect", Disconnected(order[i]))]
    BY <1>2, <1>5
  <2>2. ASSUME NEW i \in 1 .. n
        PROVE  Update(order[i], "Disconnect", Disconnected(order[i])) \in Updates
    <3>1. order[i] \in Drones /\ Disconnected(order[i]) \in StateType
      BY <1>4, <1>5, <1>7
    <3> QED  BY <3>1 DEF Update, Updates, Alerts
  <2>3. outbox' \in Seq(Updates) /\ Len(outbox') = n
    BY <1>4, <2>1, <2>2
  <2> QED  BY <2>1, <2>3 DEF Update
<1>9. /\ state' \in [Drones -> StateType]
      /\ \A d \in Drones : state'[d] = IF d \in Stale THEN Disconnected(d) ELSE state[d]
  BY <1>1, <1>2, <1>7 DEF DronesTyped
<1>10. ASSUME NEW d \in Drones
       PROVE  /\ state'[d].armed = state[d].armed
              /\ state'[d].firstSeen = state[d].firstSeen
              /\ state'[d].lastSeen = state[d].lastSeen
              /\ state'[d].messages = state[d].messages
              /\ state'[d].gps = state[d].gps
              /\ state'[d].connected = (d \notin Stale /\ state[d].connected)
  <2>1. CASE d \in Stale
    BY <1>7, <1>9, <2>1
  <2>2. CASE d \notin Stale
    <3>1. state[d].connected \in BOOLEAN
      BY <1>1 DEF DronesTyped, StateType
    <3> QED  BY <1>9, <2>2, <3>1
  <2> QED  BY <2>1, <2>2
<1>11. Typed'
  BY <1>1, <1>2, <1>8, <1>9
     DEF Typed, CountersTyped, DronesTyped, HistoryTyped, QueuesTyped, EmittedTyped
<1>12. OutboxDistinct'
  BY <1>6, <1>8 DEF OutboxDistinct
<1>13. Balanced'
  <2> SUFFICES ASSUME NEW c \in Drones
               PROVE  /\ Told(c, "New")' = Count(c \in known')
                      /\ Told(c, "New")' + Told(c, "Reconnect")' - Told(c, "Disconnect")'
                           = Count(c \in Connected')
                      /\ Told(c, "Armed")' - Told(c, "Disarmed")' = Count(c \in Armed')
    BY DEF Balanced
  <2>1. \A a \in Alerts : emitted[c][a] \in Nat
    BY <1>1 DEF EmittedTyped
  <2>2. \A a \in Alerts : Told(c, a) = emitted[c][a]
    BY <1>2, <2>1, EmptyQueue DEF Told, Count
  <2>3. ASSUME NEW a \in Alerts
        PROVE  Told(c, a)' = emitted[c][a] + Count(a = "Disconnect" /\ c \in Stale)
    <3>1. Waits(c, a)' <=> a = "Disconnect" /\ c \in Stale
      BY <1>5, <1>8 DEF Waits
    <3> QED  BY <1>2, <3>1 DEF Told, Count
  <2>4. /\ c \in Connected' <=> c \in Connected /\ c \notin Stale
        /\ c \in Armed' <=> c \in Armed
        /\ c \in Stale => c \in Connected
    BY <1>2, <1>10 DEF Connected, Armed, Stale
  <2>5. /\ emitted[c]["New"] = Count(c \in known)
        /\ emitted[c]["New"] + emitted[c]["Reconnect"] - emitted[c]["Disconnect"]
             = Count(c \in Connected)
        /\ emitted[c]["Armed"] - emitted[c]["Disarmed"] = Count(c \in Armed)
    BY <2>2 DEF IInv, Balanced, Alerts
  <2>6. /\ Told(c, "New")' = emitted[c]["New"]
        /\ Told(c, "Reconnect")' = emitted[c]["Reconnect"]
        /\ Told(c, "Disconnect")' = emitted[c]["Disconnect"] + Count(c \in Stale)
        /\ Told(c, "Armed")' = emitted[c]["Armed"]
        /\ Told(c, "Disarmed")' = emitted[c]["Disarmed"]
    BY <2>1, <2>3 DEF Alerts, Count
  <2> HIDE <2>3
  <2>7. Told(c, "New")' = Count(c \in known')
    BY <1>2, <2>5, <2>6
  <2>8. Told(c, "New")' + Told(c, "Reconnect")' - Told(c, "Disconnect")'
          = Count(c \in Connected')
    BY <2>1, <2>4, <2>5, <2>6 DEF Count, Alerts
  <2>9. Told(c, "Armed")' - Told(c, "Disarmed")' = Count(c \in Armed')
    BY <2>4, <2>5, <2>6 DEF Count
  <2> QED  BY <2>7, <2>8, <2>9
<1>14. Unheard'
  BY <1>2, <1>4, <1>9 DEF IInv, Unheard
<1>15. LastHeard'
  BY <1>1, <1>2, <1>10 DEF IInv, LastHeard, DronesTyped
<1>16. Tracked' /\ Ordered'
  BY <1>2, <1>10 DEF IInv, Tracked, Ordered, Ring!Recent, Ring!Behind
<1>17. Current'
  <2> SUFFICES ASSUME ~dropped', panics' = 0, NEW c \in known'
               PROVE  Reaches(c)'
    BY DEF Current
  <2>1. c \in known /\ c \in Drones /\ Reaches(c) /\ mirror'[c] = mirror[c]
    BY <1>1, <1>2 DEF IInv, Current, DronesTyped
  <2>2. CASE c \notin Stale
    <3>1. state'[c] = state[c]
      BY <1>9, <2>1, <2>2
    <3>2. \A i \in DOMAIN outbox' : outbox'[i].drone # c
      BY <1>5, <1>8, <2>2
    <3> QED  BY <1>1, <1>2, <1>8, <2>1, <3>1, <3>2, OthersReach
  <2>3. CASE c \in Stale
    <3>1. /\ Len(updates) \in Nat
          /\ DOMAIN Queue' = 1 .. Len(updates) + n
          /\ \A i \in 1 .. Len(updates) + n :
               Queue'[i] = IF i <= Len(updates) THEN updates[i]
                           ELSE outbox'[i - Len(updates)]
      BY <1>1, <1>2, <1>8, QueueGrows
    <3>2. PICK k \in 1 .. n : order[k] = c
      BY <1>5, <2>3
    <3>3. PICK m : m = Len(updates) + k
      OBVIOUS
    <3>4. ASSUME NEW j \in DOMAIN Queue', j >= m
          PROVE  Queue'[j].drone = c => Queue'[j].state = Disconnected(c)
      <4>1. Queue'[j] = outbox'[j - Len(updates)]
        BY <1>4, <3>1, <3>2, <3>3, <3>4
      <4>2. j - Len(updates) \in 1 .. n
        BY <1>4, <3>1, <3>2, <3>3, <3>4
      <4> QED  BY <1>8, <4>1, <4>2
    <3>5. m \in DOMAIN Queue' /\ Queue'[m].drone = c
      <4>1. m \in 1 .. Len(updates) + n /\ ~(m <= Len(updates)) /\ m - Len(updates) = k
        BY <1>4, <3>1, <3>2, <3>3
      <4> QED  BY <1>8, <3>1, <3>2, <4>1
    <3>6. state'[c] = Disconnected(c)
      BY <1>9, <2>1, <2>3
    <3>7. \A j \in DOMAIN Queue' : j >= m => Shows(j, c)'
      BY <3>4, <3>6 DEF Shows
    <3> QED  BY <3>5, <3>7 DEF Reaches
  <2> QED  BY <2>2, <2>3
<1>18. Summed'
  <2>1. MessagesOf' = MessagesOf
    BY <1>10 DEF MessagesOf
  <2> QED  BY <1>2, <2>1 DEF IInv, Summed
<1> QED  BY <1>11, <1>12, <1>13, <1>14, <1>15, <1>16, <1>17, <1>18 DEF IInv

LEMMA ReadUpdateIInv ==
  ASSUME IInv, ReadUpdate
  PROVE  IInv'
<1>1. /\ Typed /\ CountersTyped /\ DronesTyped /\ HistoryTyped /\ QueuesTyped
      /\ EmittedTyped
  BY DEF IInv, Typed
<1>2. PICK u : u = Head(updates)
  OBVIOUS
<1>3. /\ updates # <<>>
      /\ mirror' = [mirror EXCEPT ![u.drone] = u.state]
      /\ updates' = Tail(updates)
      /\ UNCHANGED <<clock, known, state, history, outbox, dropped, panics, applied,
                     newest, overtaken, emitted>>
  BY <1>2 DEF ReadUpdate
<1>4. /\ updates \in Seq(Updates) /\ updates' \in Seq(Updates) /\ u \in Updates
      /\ Len(updates) \in Nat /\ Len(updates') = Len(updates) - 1 /\ Len(updates) >= 1
      /\ u = updates[1]
      /\ \A i \in 1 .. Len(updates') : updates'[i] = updates[i + 1]
  <2>1. updates \in Seq(Updates)
    BY <1>1 DEF QueuesTyped
  <2>2. PICK q : q = Tail(updates)
    OBVIOUS
  <2>3. /\ q \in Seq(Updates) /\ u \in Updates /\ Len(q) = Len(updates) - 1
        /\ \A i \in 1 .. Len(q) : q[i] = updates[i + 1]
    BY <1>2, <1>3, <2>1, <2>2, HeadTailProperties
  <2> QED  BY <1>2, <1>3, <2>1, <2>2, <2>3
<1>5. Typed'
  <2>1. CountersTyped' /\ HistoryTyped' /\ EmittedTyped'
    BY <1>1, <1>3 DEF CountersTyped, HistoryTyped, EmittedTyped
  <2>2. DronesTyped'
    BY <1>1, <1>3, <1>4 DEF DronesTyped, Updates
  <2>3. QueuesTyped'
    BY <1>1, <1>3, <1>4 DEF QueuesTyped
  <2> QED  BY <2>1, <2>2, <2>3 DEF Typed
<1>6. OutboxDistinct' /\ Balanced'
  <2>1. \A d \in Drones, a \in Alerts : Told(d, a)' = Told(d, a)
    BY <1>3 DEF Told, Waits
  <2>2. known' = known /\ Connected' = Connected /\ Armed' = Armed
    BY <1>3 DEF Connected, Armed
  <2>3. Balanced'
    BY <2>1, <2>2 DEF IInv, Balanced, Alerts, Count
  <2>4. OutboxDistinct'
    BY <1>3 DEF IInv, OutboxDistinct
  <2> QED  BY <2>3, <2>4
<1>7. Unheard' /\ LastHeard' /\ Tracked' /\ Ordered' /\ Summed'
  BY <1>3 DEF IInv, Unheard, LastHeard, Tracked, Ordered, Ring!Recent, Ring!Behind,
              Summed, MessagesOf
<1>8. Current'
  <2> SUFFICES ASSUME ~dropped', panics' = 0, NEW d \in known'
               PROVE  Reaches(d)'
    BY DEF Current
  <2>1. d \in Drones /\ Reaches(d) /\ state'[d] = state[d]
    BY <1>1, <1>3 DEF IInv, Current, DronesTyped
  <2>2. PICK n : n = Len(updates) + Len(outbox)
    OBVIOUS
  <2>3. /\ n \in Nat /\ n >= 1
        /\ DOMAIN Queue = 1 .. n /\ DOMAIN Queue' = 1 .. n - 1
        /\ Queue[1] = u
        /\ \A i \in 1 .. n - 1 : Queue'[i] = Queue[i + 1]
    <3>1. outbox \in Seq(Updates) /\ Len(outbox) \in Nat
      BY <1>1 DEF QueuesTyped
    <3>2. PICK q : q = updates \o outbox
      OBVIOUS
    <3>3. PICK t : t = Tail(updates)
      OBVIOUS
    <3>4. PICK r : r = t \o outbox
      OBVIOUS
    <3>5. /\ q \in Seq(Updates) /\ Len(q) = Len(updates) + Len(outbox)
          /\ \A i \in 1 .. Len(updates) + Len(outbox) :
               q[i] = IF i <= Len(updates) THEN updates[i] ELSE outbox[i - Len(updates)]
      BY <1>4, <3>1, <3>2, ConcatProperties
    <3>6. /\ t \in Seq(Updates) /\ Len(t) = Len(updates) - 1
          /\ \A i \in 1 .. Len(t) : t[i] = updates[i + 1]
      BY <1>3, <1>4, <3>3
    <3>7. /\ r \in Seq(Updates) /\ Len(r) = Len(t) + Len(outbox)
          /\ \A i \in 1 .. Len(t) + Len(outbox) :
               r[i] = IF i <= Len(t) THEN t[i] ELSE outbox[i - Len(t)]
      BY <3>1, <3>4, <3>6, ConcatProperties
    <3>8. Queue = q /\ Queue' = r
      BY <1>3, <3>2, <3>3, <3>4 DEF Queue
    <3>9. ASSUME NEW i \in 1 .. n - 1
          PROVE  r[i] = q[i + 1]
      <4>1. CASE i <= Len(t)
        BY <1>4, <2>2, <3>1, <3>5, <3>6, <3>7, <4>1
      <4>2. CASE i > Len(t)
        <5>1. r[i] = outbox[i - Len(t)] /\ q[i + 1] = outbox[i + 1 - Len(updates)]
          BY <1>4, <2>2, <3>1, <3>5, <3>6, <3>7, <4>2
        <5>2. i - Len(t) = i + 1 - Len(updates)
          BY <1>4, <3>6
        <5> QED  BY <5>1, <5>2
      <4> QED  BY <1>4, <3>6, <4>1, <4>2
    <3>10. n \in Nat /\ n >= 1 /\ Len(q) = n /\ Len(r) = n - 1
      BY <1>4, <2>2, <3>1, <3>5, <3>6, <3>7
    <3>11. q[1] = u
      BY <1>4, <3>1, <3>5
    <3> QED  BY <3>5, <3>7, <3>8, <3>9, <3>10, <3>11
  <2>4. mirror'[d] = IF u.drone = d THEN u.state ELSE mirror[d]
    BY <1>1, <1>3, <2>1 DEF DronesTyped
  <2>5. ASSUME NEW j \in DOMAIN Queue', Shows(j + 1, d)
        PROVE  Shows(j, d)'
    BY <2>1, <2>3, <2>5 DEF Shows
  <2>6. CASE mirror[d] = state[d] /\ \A j \in DOMAIN Queue : Shows(j, d)
    <3>1. \A j \in DOMAIN Queue' : j + 1 \in DOMAIN Queue
      BY <2>3
    <3>2. \A j \in DOMAIN Queue' : Shows(j, d)'
      BY <2>5, <2>6, <3>1
    <3>3. Shows(1, d)
      BY <2>3, <2>6
    <3>4. mirror'[d] = state'[d]
      BY <2>1, <2>3, <2>4, <2>6, <3>3 DEF Shows
    <3> QED  BY <3>2, <3>4 DEF Reaches
  <2>7. ASSUME NEW i \in DOMAIN Queue, Queue[i].drone = d,
               \A j \in DOMAIN Queue : j >= i => Shows(j, d)
        PROVE  Reaches(d)'
    <3>1. CASE i = 1
      <4>1. \A j \in DOMAIN Queue : Shows(j, d)
        BY <2>3, <2>7, <3>1
      <4>2. \A j \in DOMAIN Queue' : j + 1 \in DOMAIN Queue
        BY <2>3
      <4>3. \A j \in DOMAIN Queue' : Shows(j, d)'
        BY <2>5, <4>1, <4>2
      <4>4. Shows(1, d) /\ u.drone = d
        BY <2>3, <2>7, <3>1
      <4>5. mirror'[d] = state'[d]
        BY <2>1, <2>3, <2>4, <4>4 DEF Shows
      <4> QED  BY <4>3, <4>5 DEF Reaches
    <3>2. CASE i # 1
      <4>1. PICK k : k = i - 1
        OBVIOUS
      <4>2. k \in DOMAIN Queue' /\ i = k + 1
        BY <2>3, <3>2, <4>1
      <4>3. Queue'[k].drone = d
        BY <2>3, <2>7, <4>2
      <4>4. \A j \in DOMAIN Queue' : j >= k => j + 1 \in DOMAIN Queue /\ j + 1 >= i
        BY <2>3, <4>2
      <4>5. \A j \in DOMAIN Queue' : j >= k => Shows(j, d)'
        BY <2>5, <2>7, <4>4
      <4> QED  BY <4>2, <4>3, <4>5 DEF Reaches
    <3> QED  BY <3>1, <3>2
  <2> QED  BY <2>1, <2>6, <2>7 DEF Reaches
<1> QED  BY <1>5, <1>6, <1>7, <1>8 DEF IInv

LEMMA NextIInv == IInv /\ [Next]_vars => IInv'
<1> SUFFICES ASSUME IInv, [Next]_vars PROVE IInv'
  OBVIOUS
<1>1. ASSUME NEW d \in Drones, NEW p \in Payloads, NEW now \in 0 .. clock,
             ProcessEvent(d, p, now)
      PROVE  IInv'
  BY <1>1, ProcessEventIInv
<1>2. CASE emitUpdate
  BY <1>2, emitUpdateIInv
<1>3. CASE checkStale
  BY <1>3, checkStaleIInv
<1>4. CASE ReadUpdate
  BY <1>4, ReadUpdateIInv
<1>5. ASSUME clock' \in Nat,
             UNCHANGED <<known, state, history, outbox, updates, dropped, panics,
                         applied, newest, overtaken, emitted, mirror>>
      PROVE  IInv'
  <2>1. Typed'
    BY <1>5 DEF IInv, Typed, CountersTyped, DronesTyped, HistoryTyped, QueuesTyped,
                EmittedTyped
  <2>2. OutboxDistinct' /\ Balanced' /\ Unheard' /\ LastHeard'
    <3>1. Balanced'
      <4>1. \A d \in Drones, a \in Alerts : Told(d, a)' = Told(d, a)
        BY <1>5 DEF Told, Waits
      <4>2. known' = known /\ Connected' = Connected /\ Armed' = Armed
        BY <1>5 DEF Connected, Armed
      <4> QED  BY <4>1, <4>2 DEF IInv, Balanced, Alerts, Count
    <3>2. OutboxDistinct' /\ Unheard' /\ LastHeard'
      BY <1>5 DEF IInv, OutboxDistinct, Unheard, LastHeard
    <3> QED  BY <3>1, <3>2
  <2>3. Tracked' /\ Ordered'
    BY <1>5 DEF IInv, Tracked, Ordered, Ring!Recent, Ring!Behind
  <2>4. Current'
    BY <1>5 DEF IInv, Current, Reaches, Shows, Queue
  <2>5. Summed'
    BY <1>5 DEF IInv, Summed, MessagesOf
  <2> QED  BY <2>1, <2>2, <2>3, <2>4, <2>5 DEF IInv
<1>6. clock \in Nat
  BY DEF IInv, Typed, CountersTyped
<1>7. CASE Tick
  BY <1>5, <1>6, <1>7 DEF Tick
<1>8. CASE UNCHANGED vars
  BY <1>5, <1>6, <1>8 DEF vars
<1> QED  BY <1>1, <1>2, <1>3, <1>4, <1>7, <1>8 DEF Next

LEMMA InvariantHolds == Spec => []IInv
<1> QED  BY InitIInv, NextIInv, PTL DEF Spec
-----------------------------------------------------------------------------
(* The variables keep their types; the head and the count of every history *)
(* stay in range (manager.go:19-60, history.go:44-48).                     *)
THEOREM TypeCorrect == Spec => []TypeOK
<1>1. IInv => TypeOK
  <2> SUFFICES ASSUME IInv PROVE TypeOK
    OBVIOUS
  <2>1. /\ CountersTyped /\ DronesTyped /\ HistoryTyped /\ QueuesTyped /\ EmittedTyped
    BY DEF IInv, Typed
  <2>2. \A d \in Drones : history[d].head \in Buffer!Slots
                          /\ history[d].count \in 0 .. HistorySize
    BY <2>1 DEF HistoryTyped, Ring!Buffers, Ring!Slots, Buffer!Slots
  <2> QED  BY <2>1, <2>2
           DEF TypeOK, CountersTyped, DronesTyped, QueuesTyped, EmittedTyped
<1> QED  BY <1>1, InvariantHolds, PTL
-----------------------------------------------------------------------------
(* Stats adds up what MessagesOf and the alerts say of each drone. *)

LEMMA StatsMessages ==
  ASSUME IsFiniteSet(known), known \subseteq Drones
  PROVE  Stats.messages = Sum(MessagesOf, known)
<1>1. PICK M : M = (CHOOSE I : I = [s \in SUBSET known |->
                      IF s = {} THEN 0
                      ELSE state[Picked(s)].messages + I[s \ {Picked(s)}]])
  OBVIOUS
<1>2. Stats.messages = M[known]
  BY <1>1 DEF Stats, FoldFunctionOnSet, MapThenFoldSet, Picked
<1>3. PICK old : old = MessagesOf
  OBVIOUS
<1>4. \A s \in SUBSET known : s # {} => old[Picked(s)] = state[Picked(s)].messages
  BY <1>3, PickedIn DEF MessagesOf
<1>5. \E I : I = [s \in SUBSET known |->
                    IF s = {} THEN 0 ELSE state[Picked(s)].messages + I[s \ {Picked(s)}]]
  <2>1. PICK I : IsSum(I, old, known)
    BY SumExists
  <2>2. I = [s \in SUBSET known |->
               IF s = {} THEN 0 ELSE state[Picked(s)].messages + I[s \ {Picked(s)}]]
    BY <1>4, <2>1 DEF IsSum
  <2> QED  BY <2>2
<1>6. M = [s \in SUBSET known |->
             IF s = {} THEN 0 ELSE state[Picked(s)].messages + M[s \ {Picked(s)}]]
  BY <1>1, <1>5
<1>7. IsSum(M, old, known)
  BY <1>4, <1>6 DEF IsSum
<1>8. PICK F : IsSum(F, old, known) /\ Sum(old, known) = F[known]
  BY SumIs
<1>9. F[known] = M[known]
  BY <1>7, <1>8, SumUnique
<1> QED  BY <1>2, <1>3, <1>8, <1>9

(* How often a drone was lost and not found again. *)
AwayOf == [d \in Drones |-> emitted[d]["Disconnect"] - emitted[d]["Reconnect"]]

LEMMA AlertTotals ==
  ASSUME EmittedTyped
  PROVE  FoldFunction(LAMBDA e, n : e["Disconnect"] - e["Reconnect"] + n, 0, emitted)
           = Sum(AwayOf, Drones)
<1>1. PICK M : M = (CHOOSE I : I = [s \in SUBSET Drones |->
                      IF s = {} THEN 0
                      ELSE emitted[Picked(s)]["Disconnect"] - emitted[Picked(s)]["Reconnect"]
                             + I[s \ {Picked(s)}]])
  OBVIOUS
<1>2. FoldFunction(LAMBDA e, n : e["Disconnect"] - e["Reconnect"] + n, 0, emitted)
        = M[Drones]
  <2>1. DOMAIN emitted = Drones
    BY DEF EmittedTyped
  <2> QED  BY <1>1, <2>1 DEF FoldFunction, FoldFunctionOnSet, MapThenFoldSet, Picked
<1>3. PICK away : away = AwayOf
  OBVIOUS
<1>4. \A s \in SUBSET Drones : s # {} =>
        away[Picked(s)]
          = emitted[Picked(s)]["Disconnect"] - emitted[Picked(s)]["Reconnect"]
  BY <1>3, PickedIn DEF AwayOf
<1>5. \E I : I = [s \in SUBSET Drones |->
                    IF s = {} THEN 0
                    ELSE emitted[Picked(s)]["Disconnect"] - emitted[Picked(s)]["Reconnect"]
                           + I[s \ {Picked(s)}]]
  <2>1. PICK I : IsSum(I, away, Drones)
    BY RegistryAssumption, SumExists
  <2>2. I = [s \in SUBSET Drones |->
               IF s = {} THEN 0
               ELSE emitted[Picked(s)]["Disconnect"] - emitted[Picked(s)]["Reconnect"]
                      + I[s \ {Picked(s)}]]
    BY <1>4, <2>1 DEF IsSum
  <2> QED  BY <2>2
<1>6. M = [s \in SUBSET Drones |->
             IF s = {} THEN 0
             ELSE emitted[Picked(s)]["Disconnect"] - emitted[Picked(s)]["Reconnect"]
                    + M[s \ {Picked(s)}]]
  BY <1>1, <1>5
<1>7. IsSum(M, away, Drones)
  BY <1>4, <1>6 DEF IsSum
<1>8. PICK F : IsSum(F, away, Drones) /\ Sum(away, Drones) = F[Drones]
  BY RegistryAssumption, SumIs
<1>9. F[Drones] = M[Drones]
  BY <1>7, <1>8, RegistryAssumption, SumUnique
<1> QED  BY <1>2, <1>3, <1>8, <1>9

(* The alerts tell the whole story of every drone, and the totals of Stats *)
(* agree with them and with the events applied, through every interleaving *)
(* of events, stale checks, readers and panics (manager.go:99-144,         *)
(* 329-342, 395-433).                                                      *)
THEOREM AlertsAddUp == Spec => []AlertsMatchState
<1>1. IInv => AlertsMatchState
  <2> SUFFICES ASSUME IInv, outbox = <<>>
               PROVE  /\ \A d \in Drones :
                           LET e == emitted[d]
                           IN  /\ e["New"] = Count(d \in known)
                               /\ e["New"] + e["Reconnect"] - e["Disconnect"]
                                    = Count(d \in Connected)
                               /\ e["Armed"] - e["Disarmed"] = Count(d \in Armed)
                      /\ Stats.messages = applied
                      /\ Stats.total - Stats.connected
                           = FoldFunction(LAMBDA e, n : e["Disconnect"] - e["Reconnect"] + n,
                                          0, emitted)
    BY DEF AlertsMatchState
  <2>1. EmittedTyped /\ known \subseteq Drones /\ IsFiniteSet(known)
    BY DEF IInv, Typed, DronesTyped
  <2>2. \A d \in Drones : \A a \in Alerts : emitted[d][a] \in Nat
    BY <2>1 DEF EmittedTyped
  <2>3. \A d \in Drones : \A a \in Alerts : Told(d, a) = emitted[d][a]
    BY <2>2, EmptyQueue DEF Told, Count
  <2>4. \A d \in Drones :
          /\ emitted[d]["New"] = Count(d \in known)
          /\ emitted[d]["New"] + emitted[d]["Reconnect"] - emitted[d]["Disconnect"]
               = Count(d \in Connected)
          /\ emitted[d]["Armed"] - emitted[d]["Disarmed"] = Count(d \in Armed)
    BY <2>3 DEF IInv, Balanced, Alerts
  <2>5. Stats.messages = applied
    BY <2>1, StatsMessages DEF IInv, Summed
  <2>6. Stats.total = Cardinality(known) /\ Stats.connected = Cardinality(Connected)
    BY DEF Stats
  <2>7. Connected \subseteq known
    BY DEF Connected
  <2>8. Cardinality(known) - Cardinality(Connected) = Cardinality(known \ Connected)
    <3>1. IsFiniteSet(Connected)
      BY <2>1, <2>7, FS_Subset
    <3>2. known \cap Connected = Connected
      BY <2>7
    <3>3. Cardinality(known \ Connected)
            = Cardinality(known) - Cardinality(known \cap Connected)
      BY <2>1, FS_Difference
    <3> QED  BY <3>2, <3>3
  <2>9. Sum(AwayOf, Drones) = Cardinality(known \ Connected)
    <3>1. PICK away : away = AwayOf
      OBVIOUS
    <3>2. \A d \in Drones : away[d] = IF d \in known \ Connected THEN 1 ELSE 0
      <4> SUFFICES ASSUME NEW d \in Drones
                   PROVE  away[d] = IF d \in known \ Connected THEN 1 ELSE 0
        OBVIOUS
      <4>1. away[d] = emitted[d]["Disconnect"] - emitted[d]["Reconnect"]
        BY <3>1 DEF AwayOf
      <4>2. /\ emitted[d]["New"] \in Nat /\ emitted[d]["Reconnect"] \in Nat
            /\ emitted[d]["Disconnect"] \in Nat
        BY <2>2 DEF Alerts
      <4> QED  BY <2>4, <2>7, <4>1, <4>2 DEF Count
    <3>3. known \ Connected \in SUBSET Drones
      BY <2>1
    <3> QED  BY <3>1, <3>2, <3>3, RegistryAssumption, SumCounts
  <2>10. Stats.total - Stats.connected
           = FoldFunction(LAMBDA e, n : e["Disconnect"] - e["Reconnect"] + n, 0, emitted)
    BY <2>1, <2>6, <2>8, <2>9, AlertTotals
  <2> QED  BY <2>4, <2>5, <2>10
<1> QED  BY <1>1, InvariantHolds, PTL

(* Who has read every update holds the registry's state of every drone,    *)
(* unless an update was dropped or an event panicked (manager.go:173-199,  *)
(* 337-342).                                                               *)
THEOREM MirrorCurrent == Spec => []MirrorIsCurrent
<1>1. IInv => MirrorIsCurrent
  <2> SUFFICES ASSUME IInv, outbox = <<>>, updates = <<>>, ~dropped, panics = 0,
                      NEW d \in known
               PROVE  mirror[d] = state[d]
    BY DEF MirrorIsCurrent
  <2>1. Reaches(d)
    BY DEF IInv, Current
  <2>2. Queue = <<>>
    <3>1. <<>> \in Seq(Updates)
      OBVIOUS
    <3> QED  BY <3>1, ConcatEmptySeq DEF Queue
  <2>3. DOMAIN <<>> = {}
    OBVIOUS
  <2> QED  BY <2>1, <2>2, <2>3 DEF Reaches
<1> QED  BY <1>1, InvariantHolds, PTL

(* The stale checker marks a drone that was heard of recently only when    *)
(* one of its events was applied after a newer one, whatever the threshold *)
(* and the delays (manager.go:76, 120, 329).                               *)
THEOREM JudgedRightly == Spec => OnlyOvertakenMisjudged
<1>1. IInv /\ [Next]_vars => [\A d \in known : Misjudged(d) => d \in overtaken]_vars
  <2> SUFFICES ASSUME IInv, Next, NEW d \in known, Misjudged(d), d \notin overtaken
               PROVE  FALSE
    OBVIOUS
  <2>1. /\ CountersTyped /\ DronesTyped /\ d \in Drones
        /\ state[d] \in StateType
        /\ state[d].connected /\ ~state'[d].connected
        /\ clock - newest[d] <= StaleThreshold
        /\ state[d].lastSeen = newest[d]
    BY DEF IInv, Typed, DronesTyped, Misjudged, LastHeard
  <2>2. state' # state
    BY <2>1
  <2>3. CASE checkStale
    <3>1. state'[d] = IF d \in Stale THEN Disconnected(d) ELSE state[d]
      BY <2>1, <2>3 DEF checkStale
    <3>2. d \notin Stale
      BY <2>1, RegistryAssumption DEF Stale, CountersTyped
    <3> QED  BY <2>1, <3>1, <3>2
  <2>4. ASSUME NEW c \in Drones, NEW p \in Payloads, NEW now \in 0 .. clock,
               ProcessEvent(c, p, now)
        PROVE  FALSE
    <3>1. PICK s : s = IF c \notin known THEN NewState(now) ELSE state[c]
      OBVIOUS
    <3>2. PICK heard : heard = Heard(s, now)
      OBVIOUS
    <3>3. state' = [state EXCEPT ![c] = WithPayload(heard, p)]
      BY <2>4, <3>1, <3>2 DEF ProcessEvent
    <3>4. now \in Nat /\ p \in PayloadType
      BY <2>1, PayloadsAssumption DEF CountersTyped
    <3>5. s \in StateType
      BY <2>1, <3>1, <3>4, NewStateIs DEF DronesTyped
    <3>6. heard \in StateType /\ heard.connected = TRUE
      BY <3>2, <3>4, <3>5, HeardIs
    <3>7. WithPayload(heard, p).connected = TRUE
      BY <3>4, <3>6, WithPayloadIs
    <3> QED  BY <2>1, <3>3, <3>7 DEF DronesTyped
  <2>5. emitUpdate \/ ReadUpdate \/ Tick => state' = state
    BY DEF emitUpdate, ReadUpdate, Tick
  <2> QED  BY <2>2, <2>3, <2>4, <2>5 DEF Next
<1> QED  BY <1>1, InvariantHolds, PTL DEF Spec, OnlyOvertakenMisjudged

(* What GetHistory answers with is in the order of the times, for every    *)
(* capacity, however often the buffer has wrapped, when no component of    *)
(* the vehicle had an event applied out of order (history.go:51,           *)
(* manager.go:243-253).                                                    *)
THEOREM HistoriesInOrder == Spec => []HistoryInOrder
<1>1. IInv => HistoryInOrder
  <2> SUFFICES ASSUME IInv, NEW d \in known,
                      SystemOf[d] \notin {SystemOf[c] : c \in overtaken},
                      NEW h \in GetHistory(SystemOf[d], HistorySize),
                      NEW i \in DOMAIN h, NEW j \in DOMAIN h, i < j
               PROVE  h[i].at <= h[j].at
    BY DEF HistoryInOrder
  <2>1. HistoryTyped /\ known \subseteq Drones
    BY DEF IInv, Typed, DronesTyped
  <2>2. PICK c \in known : SystemOf[c] = SystemOf[d]
                           /\ h = Buffer!LastN(history[c], HistorySize)
    <3>1. d \in Matching(SystemOf[d])
      BY DEF Matching
    <3> QED  BY <3>1 DEF GetHistory, Matching
  <2>3. c \in Drones \ overtaken
    BY <2>1, <2>2
  <2>4. PICK b : b = history[c]
    OBVIOUS
  <2>5. b \in Ring!Buffers(EntryType) /\ b.count \in Nat
    BY <2>1, <2>3, <2>4 DEF HistoryTyped, Ring!Buffers
  <2>6. PICK m : m = Ring!Held(b, HistorySize)
    OBVIOUS
  <2>7. /\ m \in 0 .. b.count /\ DOMAIN h = 1 .. m
        /\ h = [k \in 1 .. m |-> Ring!Recent(b, m - k + 1)]
    <3>1. h = Ring!LastN(b, HistorySize)
      BY <2>2, <2>4 DEF Buffer!LastN, Ring!LastN
    <3>2. HistorySize \in Nat /\ Ring!CapacityAssumption
      BY RegistryAssumption DEF Ring!CapacityAssumption
    <3>3. m \in 0 .. b.count
      BY <2>5, <2>6, <3>2, Ring!LastNIs
    <3>4. DOMAIN h = 1 .. m
      BY <2>5, <2>6, <3>1, <3>2, Ring!LastNIs
    <3>5. Ring!LastN(b, HistorySize)
            = [k \in 1 .. Ring!Held(b, HistorySize) |->
                 Ring!Recent(b, Ring!Held(b, HistorySize) - k + 1)]
      BY <2>5, <3>2, Ring!LastNIs, Zenon
    <3>6. h = [k \in 1 .. m |-> Ring!Recent(b, m - k + 1)]
      BY <2>6, <3>1, <3>5, Zenon
    <3> QED  BY <3>3, <3>4, <3>6
  <2>8. m - i + 1 \in 1 .. b.count /\ m - j + 1 \in 1 .. m - i + 1
    BY <2>5, <2>7
  <2>9. Ring!Recent(b, m - i + 1).at <= Ring!Recent(b, m - j + 1).at
    BY <2>3, <2>4, <2>8 DEF IInv, Ordered
  <2> QED  BY <2>7, <2>9
<1> QED  BY <1>1, InvariantHolds, PTL
-----------------------------------------------------------------------------
(* The REST handlers take no part in what the registry does. *)
LEMMA RegistryUnderAPI == APISpec => Spec
<1>1. APIInit => Init
  BY DEF APIInit
<1>2. [APINext]_apiVars => [Next]_vars
  BY DEF APINext, apiVars, StatsFind, StatsReply
<1> QED  BY <1>1, <1>2, PTL DEF APISpec, Spec

(* What the exported position of a drone and the end of its track have in  *)
(* common, for every history size and every sequence of whole and damaged  *)
(* payloads (export.go:91-140, 194-234, manager.go:146-164, 241-253).      *)
THEOREM TracksEnd == APISpec => []TrackEndsAtPosition
<1>1. IInv => TrackEndsAtPosition
  <2> SUFFICES ASSUME IInv, NEW d \in known, state[d].gps # NoFix,
                      NEW sys, sys = SystemOf[d],
                      NEW answers, answers = handleHistory(sys, 0)
               PROVE  LET Ends(track) ==
                            track # NotFound /\ track[Len(track)].at = state[d].gps
                      IN  /\ \E track \in answers : Ends(track)
                          /\ Matching(sys) = {d} => \A track \in answers : Ends(track)
    BY DEF TrackEndsAtPosition, handleExport, GetAllSummaries, ToSummary
  <2>1. HistoryTyped /\ known \subseteq Drones
    BY DEF IInv, Typed, DronesTyped
  <2>2. PICK b : b = history[d]
    OBVIOUS
  <2>3. b \in Ring!Buffers(EntryType) /\ b.count \in Nat
    BY <2>1, <2>2 DEF HistoryTyped, Ring!Buffers
  <2>4. b.count >= 1 /\ Ring!Recent(b, 1).at = state[d].gps
    BY <2>1, <2>2 DEF IInv, Tracked
  <2>5. PICK t : t = Buffer!LastN(b, 100)
    OBVIOUS
  <2>6. t # NotFound /\ t[Len(t)].at = state[d].gps
    <3>1. PICK m : m = Ring!Held(b, 100)
      OBVIOUS
    <3>2. t = Ring!LastN(b, 100)
      BY <2>5 DEF Buffer!LastN, Ring!LastN
    <3>3. Len(t) = m /\ t = [k \in 1 .. m |-> Ring!Recent(b, m - k + 1)]
      BY <2>3, <3>1, <3>2, RegistryAssumption, Ring!LastNIs DEF Ring!CapacityAssumption
    <3>4. m \in Nat /\ m >= 1
      BY <2>3, <2>4, <3>1 DEF Ring!Held
    <3>5. t[m] = Ring!Recent(b, 1)
      BY <3>3, <3>4
    <3>6. t # <<>>
      BY <3>3, <3>4
    <3> QED  BY <2>4, <3>3, <3>5, <3>6 DEF NotFound
  <2>7. d \in Matching(sys)
    BY DEF Matching
  <2>8. answers = {Buffer!LastN(history[c], 100) : c \in Matching(sys)}
    BY <2>7 DEF handleHistory, HistoryLimit, GetHistory
  <2>9. t \in answers
    BY <2>2, <2>5, <2>7, <2>8
  <2>10. Matching(sys) = {d} => \A track \in answers : track = t
    BY <2>2, <2>5, <2>8
  <2> QED  BY <2>6, <2>9, <2>10
<1> QED  BY <1>1, InvariantHolds, RegistryUnderAPI, PTL

(* A request that is answered in two steps is about a drone, and holds a   *)
(* count of messages.                                                      *)
RequestTyped ==
  request.pending => request.drone \in Drones /\ request.messages \in Nat

LEMMA RequestHolds == APISpec => []RequestTyped
<1>1. APIInit => RequestTyped
  BY DEF APIInit, None, RequestTyped
<1>2. IInv /\ RequestTyped /\ [APINext]_apiVars => RequestTyped'
  <2> SUFFICES ASSUME IInv, RequestTyped, [APINext]_apiVars PROVE RequestTyped'
    OBVIOUS
  <2>1. CASE UNCHANGED request
    BY <2>1 DEF RequestTyped
  <2>2. ASSUME NEW sys, StatsFind(sys)
        PROVE  RequestTyped'
    <3>1. PICK d \in Matching(sys) :
            request' = [pending |-> TRUE, drone |-> d, messages |-> state[d].messages]
      BY <2>2 DEF StatsFind, GetStateBySystemID
    <3>2. d \in Drones
      BY DEF IInv, Typed, DronesTyped, Matching
    <3>3. state[d].messages \in Nat
      BY <3>2 DEF IInv, Typed, DronesTyped, StateType
    <3> QED  BY <3>1, <3>2, <3>3 DEF RequestTyped
  <2>3. CASE StatsReply
    BY <2>3 DEF StatsReply, None, RequestTyped
  <2> QED  BY <2>1, <2>2, <2>3 DEF APINext, apiVars
<1> QED  BY <1>1, <1>2, InvariantHolds, RegistryUnderAPI, PTL DEF APISpec

(* A reply put together from two reads claims more history than messages   *)
(* only when a message came in between, and a negative uptime only when    *)
(* events were applied out of order (export.go:142-174).                   *)
THEOREM RepliesHangTogether == APISpec => StatsHangTogether
<1>1. IInv /\ RequestTyped /\ [APINext]_apiVars
        => [/\ StatsReply /\ HistoryLen > request.messages =>
                 state[request.drone].messages > request.messages
            /\ \A d \in known : Uptime(d) < 0 => d \in overtaken]_apiVars
  <2> SUFFICES ASSUME IInv, RequestTyped
               PROVE  /\ StatsReply /\ HistoryLen > request.messages =>
                           state[request.drone].messages > request.messages
                      /\ \A d \in known : Uptime(d) < 0 => d \in overtaken
    OBVIOUS
  <2>1. DronesTyped /\ HistoryTyped
    BY DEF IInv, Typed
  <2>2. ASSUME StatsReply, HistoryLen > request.messages
        PROVE  state[request.drone].messages > request.messages
    <3>1. request.drone \in Drones /\ request.messages \in Nat
      BY <2>2 DEF StatsReply, RequestTyped
    <3>2. history[request.drone].count <= state[request.drone].messages
      BY <3>1 DEF IInv, Tracked
    <3>3. /\ history[request.drone].count \in Nat
          /\ state[request.drone].messages \in Nat
      BY <2>1, <3>1 DEF DronesTyped, HistoryTyped, StateType, Ring!Buffers
    <3> QED  BY <2>2, <3>1, <3>2, <3>3 DEF HistoryLen
  <2>3. ASSUME NEW d \in known, Uptime(d) < 0, d \notin overtaken
        PROVE  FALSE
    <3>1. state[d].firstSeen <= state[d].lastSeen
      BY <2>3 DEF IInv, LastHeard
    <3>2. state[d].firstSeen \in Nat /\ state[d].lastSeen \in Nat
      BY <2>1 DEF DronesTyped, StateType
    <3> QED  BY <2>3, <3>1, <3>2 DEF Uptime
  <2> QED  BY <2>2, <2>3
<1> QED  BY <1>1, InvariantHolds, RequestHolds, RegistryUnderAPI, PTL
         DEF APISpec, StatsHangTogether
=============================================================================
