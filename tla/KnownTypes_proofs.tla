--------------------------- MODULE KnownTypes_proofs ---------------------------
(***************************************************************************)
(* Proofs about KnownTypes, for all sets of threads, types and registered  *)
(* decoders.                                                               *)
(***************************************************************************)
EXTENDS KnownTypes, TLAPS

USE DecodersAssumption, BoundAssumption

AnyDecoder == 1..made \cup UserDecoders \cup {None}

\* The types; with a call that is away knowing what it was asked for, and an
\* answer that names a type carrying a decoder.
TypeInv ==
    /\ knownTypes \in [TypeIds -> AnyDecoder]
    /\ pc \in [Threads -> {"idle", "get", "setIfMissing", "showTable"}]
    /\ typeId \in [Threads -> TypeIds \cup {None}]
    /\ decoder \in [Threads -> UserDecoders \cup {None}]
    /\ made \in 0..MaxMade
    /\ answer \in [Threads -> [type : TypeIds \cup {None}, decoder : AnyDecoder]]
    /\ registered \in [TypeIds -> UserDecoders \cup {None}]
    /\ touched \subseteq TypeIds
    /\ \A t \in Threads : pc[t] \in {"get", "setIfMissing"} => typeId[t] \in TypeIds
    /\ \A t \in Threads : answer[t].type # None => answer[t].decoder # None

\* What the step may do to the shared cache: every action, for its effect on
\* the cache, its histories and the answers, is one of these.
FillStep(t) ==
    /\ typeId[t] \in TypeIds
    /\ knownTypes[typeId[t]] = None
    /\ made < MaxMade /\ made' = made + 1
    /\ knownTypes' = [knownTypes EXCEPT ![typeId[t]] = made + 1]
    /\ AnswerWith(t, typeId[t], made + 1) \/ UNCHANGED answer
    /\ UNCHANGED <<registered, touched>>

HitStep(t, ty) ==
    /\ knownTypes[ty] # None
    /\ AnswerWith(t, ty, knownTypes[ty])
    /\ UNCHANGED <<knownTypes, made, registered, touched>>

FailStep(t) ==
    /\ answer' = [answer EXCEPT ![t] = NoAnswer]
    /\ UNCHANGED <<knownTypes, made, registered, touched>>

RegisterStep(ty, d) ==
    /\ Register(ty, d)
    /\ UNCHANGED <<made, answer>>

Quiet == UNCHANGED <<knownTypes, made, answer, registered, touched>>

\* Whatever a thread does, the cache sees a fill, a hit, a failure, a
\* registration, or nothing.
LEMMA Effects ==
    ASSUME TypeInv, [Next]_vars
    PROVE  \/ \E t \in Threads : FillStep(t) \/ FailStep(t)
           \/ \E t \in Threads, ty \in TypeIds : HitStep(t, ty)
           \/ \E ty \in TypeIds, d \in UserDecoders \cup {None} : RegisterStep(ty, d)
           \/ Quiet
<1> DEFINE Goal == \/ \E t \in Threads : FillStep(t) \/ FailStep(t)
                   \/ \E t \in Threads, ty \in TypeIds : HitStep(t, ty)
                   \/ \E ty \in TypeIds, d \in UserDecoders \cup {None} : RegisterStep(ty, d)
                   \/ Quiet
<1>1. ASSUME NEW t \in Threads, FetchFails(t) PROVE Goal
  <2>1. CASE pc[t] = "get"
    BY <1>1, <2>1 DEF FetchFails, FailStep
  <2>2. CASE pc[t] # "get"
    <3>1. answer' = answer
      BY <1>1, <2>2 DEF FetchFails, TypeInv
    <3> QED
      BY <1>1, <3>1 DEF FetchFails, Quiet
  <2> QED
    BY <2>1, <2>2
<1>2. ASSUME NEW t \in Threads, StoreFound(t) PROVE Goal
  <2>1. typeId[t] \in TypeIds
    BY <1>2 DEF StoreFound, TypeInv
  <2>2. CASE pc[t] = "get"
    BY <1>2, <2>1, <2>2 DEF StoreFound, StillMissing, HitStep
  <2>3. CASE pc[t] # "get"
    BY <1>2, <2>3 DEF StoreFound, Quiet
  <2> QED
    BY <2>2, <2>3
<1>3. ASSUME NEW t \in Threads, StoreNew(t) PROVE Goal
  <2>1. typeId[t] \in TypeIds
    BY <1>3 DEF StoreNew, TypeInv
  <2> QED
    BY <1>3, <2>1 DEF StoreNew, StillMissing, FillStep
<1>4. ASSUME NEW t \in Threads, ShowTableFails(t) PROVE Goal
  BY <1>4 DEF ShowTableFails, Quiet
<1>5. ASSUME NEW t \in Threads, NEW ty \in TypeIds, GetHit(t, ty) PROVE Goal
  BY <1>5 DEF GetHit, HitStep
<1>6. ASSUME NEW t \in Threads, NEW ty \in TypeIds, GetMiss(t, ty) \/ SetMissing(t, ty) PROVE Goal
  BY <1>6 DEF GetMiss, SetMissing, Quiet
<1>7. ASSUME NEW t \in Threads, NEW ty \in TypeIds, ShowTableAnswered(t, ty) PROVE Goal
  <2>1. decoder[t] \in UserDecoders \cup {None}
    BY DEF TypeInv
  <2> QED
    BY <1>7, <2>1 DEF ShowTableAnswered, RegisterStep, Register
<1>8. ASSUME NEW t \in Threads, NEW ty \in TypeIds, NEW d \in UserDecoders \cup {None},
             AddKnownType(t, ty, d)
      PROVE  Goal
  BY <1>8 DEF AddKnownType, RegisterStep, client
<1>9. ASSUME NEW t \in Threads, NEW d \in UserDecoders \cup {None}, AddFromTable(t, d) PROVE Goal
  BY <1>9 DEF AddFromTable, Quiet
<1>10. ASSUME UNCHANGED vars PROVE Goal
  BY <1>10 DEF vars, client, Quiet
<1> HIDE DEF Goal
<1>11. ASSUME Next PROVE Goal
  <2>1. PICK t \in Threads :
          \/ FetchFails(t) \/ StoreFound(t) \/ StoreNew(t) \/ ShowTableFails(t)
          \/ \E ty \in TypeIds :
                \/ GetHit(t, ty) \/ GetMiss(t, ty) \/ SetMissing(t, ty) \/ ShowTableAnswered(t, ty)
                \/ \E d \in UserDecoders \cup {None} : AddKnownType(t, ty, d)
          \/ \E d \in UserDecoders \cup {None} : AddFromTable(t, d)
    BY <1>11, Zenon DEF Next
  <2> QED
    BY <2>1, <1>1, <1>2, <1>3, <1>4, <1>5, <1>6, <1>7, <1>8, <1>9, Zenon
<1>12. Goal
  BY <1>10, <1>11
<1> QED
  BY <1>12 DEF Goal

-----------------------------------------------------------------------------

\* The cache begins with the types of its state.
LEMMA InitTyped == Init => TypeInv
  BY DEF Init, TypeInv, AnyDecoder, NoAnswer

\* The cache, its histories and the answers keep their types, by the effects.
LEMMA CacheTyped ==
    ASSUME TypeInv, [Next]_vars
    PROVE  /\ made' \in 0..MaxMade
           /\ knownTypes' \in [TypeIds -> AnyDecoder']
           /\ answer' \in [Threads -> [type : TypeIds \cup {None}, decoder : AnyDecoder']]
           /\ registered' \in [TypeIds -> UserDecoders \cup {None}]
           /\ touched' \subseteq TypeIds
           /\ \A t \in Threads : answer'[t].type # None => answer'[t].decoder # None
<1> DEFINE Goal == /\ made' \in 0..MaxMade
                   /\ knownTypes' \in [TypeIds -> AnyDecoder']
                   /\ answer' \in [Threads -> [type : TypeIds \cup {None}, decoder : AnyDecoder']]
                   /\ registered' \in [TypeIds -> UserDecoders \cup {None}]
                   /\ touched' \subseteq TypeIds
                   /\ \A t \in Threads : answer'[t].type # None => answer'[t].decoder # None
<1> USE DEF TypeInv
<1>1. ASSUME NEW t \in Threads, FillStep(t) PROVE Goal
  <2>1. made \in Nat /\ made' = made + 1 /\ made' \in 0..MaxMade
    BY <1>1 DEF FillStep
  <2>2. AnyDecoder \subseteq AnyDecoder' /\ made + 1 \in AnyDecoder' /\ made + 1 # None
    BY <2>1 DEF AnyDecoder
  <2>3. knownTypes' \in [TypeIds -> AnyDecoder']
    <3>1. knownTypes \in [TypeIds -> AnyDecoder']
      BY <2>2
    <3> QED
      BY <1>1, <2>2, <3>1 DEF FillStep
  <2>4. answer' \in [Threads -> [type : TypeIds \cup {None}, decoder : AnyDecoder']]
    <3>1. answer \in [Threads -> [type : TypeIds \cup {None}, decoder : AnyDecoder']]
      BY <2>2
    <3>2. [type |-> typeId[t], decoder |-> made + 1] \in
              [type : TypeIds \cup {None}, decoder : AnyDecoder']
      BY <1>1, <2>2 DEF FillStep
    <3> QED
      BY <1>1, <3>1, <3>2 DEF FillStep, AnswerWith
  <2>5. \A u \in Threads : answer'[u].type # None => answer'[u].decoder # None
    BY <1>1, <2>2 DEF FillStep, AnswerWith
  <2> QED
    BY <1>1, <2>1, <2>3, <2>4, <2>5 DEF FillStep
<1>2. ASSUME NEW t \in Threads, FailStep(t) PROVE Goal
  <2>1. NoAnswer \in [type : TypeIds \cup {None}, decoder : AnyDecoder]
    BY DEF NoAnswer, AnyDecoder
  <2> QED
    BY <1>2, <2>1 DEF FailStep, AnyDecoder, NoAnswer
<1>3. ASSUME NEW t \in Threads, NEW ty \in TypeIds, HitStep(t, ty) PROVE Goal
  <2>1. [type |-> ty, decoder |-> knownTypes[ty]] \in [type : TypeIds \cup {None}, decoder : AnyDecoder]
    OBVIOUS
  <2> QED
    BY <1>3, <2>1 DEF HitStep, AnswerWith, AnyDecoder
<1>4. ASSUME NEW ty \in TypeIds, NEW d \in UserDecoders \cup {None}, RegisterStep(ty, d) PROVE Goal
  BY <1>4 DEF RegisterStep, Register, AnyDecoder
<1>5. ASSUME Quiet PROVE Goal
  BY <1>5 DEF Quiet, AnyDecoder
<1> HIDE DEF Goal
<1>6. Goal
  BY <1>1, <1>2, <1>3, <1>4, <1>5, Effects
<1> QED
  BY <1>6 DEF Goal

\* The callers' places and arguments keep their types.
LEMMA CallersTyped ==
    ASSUME TypeInv, [Next]_vars
    PROVE  /\ pc' \in [Threads -> {"idle", "get", "setIfMissing", "showTable"}]
           /\ typeId' \in [Threads -> TypeIds \cup {None}]
           /\ decoder' \in [Threads -> UserDecoders \cup {None}]
           /\ \A t \in Threads : pc'[t] \in {"get", "setIfMissing"} => typeId'[t] \in TypeIds
<1>1. \/ UNCHANGED <<pc, typeId, decoder>>
      \/ \E t \in Threads : Return(t)
      \/ \E t \in Threads, ty \in TypeIds : Go(t, "get", ty, None) \/ Go(t, "setIfMissing", ty, None)
      \/ \E t \in Threads, d \in UserDecoders \cup {None} : Go(t, "showTable", None, d)
  BY DEF Next, FetchFails, StoreFound, StoreNew, ShowTableFails, GetHit, GetMiss, SetMissing,
         ShowTableAnswered, AddKnownType, AddFromTable, vars, client
<1>2. CASE UNCHANGED <<pc, typeId, decoder>>
  BY <1>2 DEF TypeInv
<1>3. ASSUME NEW t \in Threads, NEW place \in {"idle", "get", "setIfMissing", "showTable"},
             NEW ty \in TypeIds \cup {None}, NEW d \in UserDecoders \cup {None},
             place \in {"get", "setIfMissing"} => ty \in TypeIds,
             pc' = [pc EXCEPT ![t] = place], typeId' = [typeId EXCEPT ![t] = ty],
             decoder' = [decoder EXCEPT ![t] = d]
      PROVE  /\ pc' \in [Threads -> {"idle", "get", "setIfMissing", "showTable"}]
             /\ typeId' \in [Threads -> TypeIds \cup {None}]
             /\ decoder' \in [Threads -> UserDecoders \cup {None}]
             /\ \A u \in Threads : pc'[u] \in {"get", "setIfMissing"} => typeId'[u] \in TypeIds
  BY <1>3 DEF TypeInv
<1>4. CASE \E t \in Threads : Return(t)
  BY <1>3, <1>4 DEF Return
<1>5. CASE \E t \in Threads, ty \in TypeIds :
             Go(t, "get", ty, None) \/ Go(t, "setIfMissing", ty, None)
  BY <1>3, <1>5 DEF Go
<1>6. CASE \E t \in Threads, d \in UserDecoders \cup {None} : Go(t, "showTable", None, d)
  BY <1>3, <1>6 DEF Go
<1> QED
  BY <1>1, <1>2, <1>4, <1>5, <1>6

\* Every step of a call keeps the types.
LEMMA NextTyped == TypeInv /\ [Next]_vars => TypeInv'
  BY CacheTyped, CallersTyped DEF TypeInv

\* The types hold always.
LEMMA Typed == Spec => []TypeInv
  BY InitTyped, NextTyped, PTL DEF Spec

-----------------------------------------------------------------------------

\* No step replaces a registered decoder.
LEMMA RegisteredStep == TypeInv /\ RegisteredStays /\ [Next]_vars => RegisteredStays'
<1> SUFFICES ASSUME TypeInv, RegisteredStays, [Next]_vars PROVE RegisteredStays'
  OBVIOUS
<1>1. ASSUME NEW t \in Threads, FillStep(t) PROVE RegisteredStays'
  <2>1. registered[typeId[t]] = None
    BY <1>1 DEF FillStep, RegisteredStays
  <2> QED
    BY <1>1, <2>1 DEF FillStep, RegisteredStays, TypeInv
<1>2. ASSUME NEW ty \in TypeIds, NEW d \in UserDecoders \cup {None}, RegisterStep(ty, d)
      PROVE  RegisteredStays'
  BY <1>2 DEF RegisterStep, Register, RegisteredStays, TypeInv
<1>3. ASSUME UNCHANGED <<knownTypes, registered>> PROVE RegisteredStays'
  BY <1>3 DEF RegisteredStays
<1> QED
  BY <1>1, <1>2, <1>3, Effects DEF HitStep, FailStep, Quiet

\* No step gives a thread another decoder than the others were given.
LEMMA OneDecoderStep == TypeInv /\ OneDecoderForAll /\ [Next]_vars => OneDecoderForAll'
<1> SUFFICES ASSUME TypeInv, OneDecoderForAll, [Next]_vars PROVE OneDecoderForAll'
  OBVIOUS
<1>1. ASSUME NEW t \in Threads, FillStep(t) PROVE OneDecoderForAll'
  <2>1. SUFFICES ASSUME NEW u \in Threads, answer'[u].type \in TypeIds \ touched
                 PROVE  answer'[u].decoder = knownTypes'[answer'[u].type]
    BY <1>1 DEF FillStep, OneDecoderForAll
  <2>2. knownTypes'[typeId[t]] = made + 1
    BY <1>1 DEF FillStep, TypeInv
  <2>3. CASE answer'[u] = answer[u]
    <3>1. answer[u].decoder = knownTypes[answer[u].type] /\ answer[u].decoder # None
      BY <2>1, <2>3 DEF OneDecoderForAll, TypeInv
    <3>2. answer[u].type # typeId[t]
      BY <1>1, <3>1 DEF FillStep
    <3> QED
      BY <1>1, <2>1, <2>3, <3>1, <3>2 DEF FillStep, TypeInv
  <2>4. CASE answer'[u] # answer[u]
    <3>1. answer'[u] = [type |-> typeId[t], decoder |-> made + 1]
      BY <1>1, <2>4 DEF FillStep, AnswerWith, TypeInv
    <3> QED
      BY <2>2, <3>1
  <2> QED
    BY <2>3, <2>4
<1>2. ASSUME NEW ty \in TypeIds, NEW d \in UserDecoders \cup {None}, RegisterStep(ty, d)
      PROVE  OneDecoderForAll'
  BY <1>2 DEF RegisterStep, Register, OneDecoderForAll, TypeInv
<1>3. ASSUME NEW t \in Threads, NEW ty \in TypeIds, HitStep(t, ty) PROVE OneDecoderForAll'
  BY <1>3 DEF HitStep, AnswerWith, OneDecoderForAll, TypeInv
<1>4. ASSUME NEW t \in Threads, FailStep(t) PROVE OneDecoderForAll'
  BY <1>4 DEF FailStep, NoAnswer, OneDecoderForAll, TypeInv
<1>5. ASSUME Quiet PROVE OneDecoderForAll'
  BY <1>5 DEF Quiet, OneDecoderForAll
<1> QED
  BY <1>1, <1>2, <1>3, <1>4, <1>5, Effects

(* What addKnownType registered is never replaced by a decoder that getDecoder *)
(* or setDecoderIfMissing was building at the time.                            *)
THEOREM RegisteredCorrect == Spec => []RegisteredStays
<1>1. Init => RegisteredStays
  BY DEF Init, RegisteredStays
<1> QED
  BY <1>1, Typed, RegisteredStep, PTL DEF Spec

(* All threads use one decoder of a type, if the application leaves it alone,  *)
(* for any number of threads that miss it together.                            *)
THEOREM OneDecoderCorrect == Spec => []OneDecoderForAll
<1>1. Init => OneDecoderForAll
  BY DEF Init, OneDecoderForAll, NoAnswer
<1> QED
  BY <1>1, Typed, OneDecoderStep, PTL DEF Spec

-----------------------------------------------------------------------------

\* The cache begins as the atomic one.
LEMMA AtomicInit == Init => Atomic!Init
<1> SUFFICES ASSUME Init PROVE Atomic!Init
  OBVIOUS
<1>1. 1..made = {}
  BY DEF Init
<1> QED
  BY <1>1 DEF Init, NoAnswer, Atomic!Init, Atomic!NoAnswer

\* Every step is one of the atomic cache, or none.
LEMMA AtomicStep == TypeInv /\ [Next]_vars => [Atomic!Next]_(Atomic!vars)
<1> SUFFICES ASSUME TypeInv, [Next]_vars PROVE Atomic!Next \/ UNCHANGED Atomic!vars
  OBVIOUS
<1>1. ASSUME NEW t \in Threads, FillStep(t) PROVE Atomic!Next
  <2>1. /\ typeId[t] \in TypeIds
        /\ made + 1 \in 1..MaxMade /\ made + 1 \notin 1..made
        /\ 1..made' = 1..made \cup {made + 1}
    <3>1. made \in Nat /\ made < MaxMade /\ made' = made + 1 /\ typeId[t] \in TypeIds
      BY <1>1 DEF FillStep, TypeInv
    <3> QED
      BY <3>1
  <2>2. Atomic!Fill(t, typeId[t], made + 1)
    BY <1>1, <2>1 DEF FillStep, AnswerWith, Atomic!Fill, Atomic!AnswerWith
  <2> QED
    BY <2>1, <2>2 DEF Atomic!Next
<1>2. ASSUME NEW t \in Threads, NEW ty \in TypeIds, HitStep(t, ty) PROVE Atomic!Next
  <2>1. Atomic!Hit(t, ty)
    BY <1>2 DEF HitStep, AnswerWith, Atomic!Hit, Atomic!AnswerWith
  <2> QED
    BY <2>1 DEF Atomic!Next
<1>3. ASSUME NEW t \in Threads, FailStep(t) PROVE Atomic!Next
  <2>1. Atomic!Fail(t)
    BY <1>3 DEF FailStep, NoAnswer, Atomic!Fail, Atomic!NoAnswer
  <2> QED
    BY <2>1 DEF Atomic!Next
<1>4. ASSUME NEW ty \in TypeIds, NEW d \in UserDecoders \cup {None}, RegisterStep(ty, d)
      PROVE  Atomic!Next
  <2>1. Atomic!Register(ty, d)
    BY <1>4 DEF RegisterStep, Register, Atomic!Register
  <2> QED
    BY <2>1 DEF Atomic!Next
<1>5. ASSUME Quiet PROVE UNCHANGED Atomic!vars
  BY <1>5 DEF Quiet, Atomic!vars
<1> QED
  BY <1>1, <1>2, <1>3, <1>4, <1>5, Effects

(* Between the two looks under the mutex anything may happen to the cache; yet *)
(* every call of any thread takes effect at one instant.                       *)
THEOREM AtomicCorrect == Spec => AtomicSpec
<1>1. Spec => Atomic!Init /\ [][Atomic!Next]_(Atomic!vars)
  BY AtomicInit, AtomicStep, Typed, PTL DEF Spec
<1> QED
  BY <1>1 DEF AtomicSpec, Atomic!Spec
================================================================================
