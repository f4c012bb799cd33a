------------------------------ MODULE KnownTypes ------------------------------
(***************************************************************************)
(* The cache of decoders of gpudb::GPUdb (src/gpudb/GPUdb.cpp):            *)
(* m_knownTypes, from a type's identifier to what decodes its records.     *)
(* getDecoder and setDecoderIfMissing look under m_knownTypesMutex, let it *)
(* go while they ask the server or build a decoder, and look again before  *)
(* they store; addKnownType and addKnownTypeFromTable store what the       *)
(* application gives.  Each critical section is one step.                  *)
(*                                                                         *)
(* The decoders the client builds are numbered in the order they are       *)
(* stored.  The identifier "<collection>", which setDecoderIfMissing       *)
(* ignores, is not among TypeIds.                                          *)
(***************************************************************************)
EXTENDS Naturals

CONSTANTS
    Threads,
    TypeIds,
    UserDecoders,  \* decoders the application may register
    None,          \* no decoder: a null pointer, or no entry
    MaxMade        \* bound: decoders the client builds and stores

ASSUME DecodersAssumption == UserDecoders \cap Nat = {} /\ None \notin Nat \cup UserDecoders \cup TypeIds
ASSUME BoundAssumption == MaxMade \in Nat

VARIABLES
    knownTypes,  \* m_knownTypes
    pc,          \* "idle", or which call is outside its critical sections
    typeId,      \* the call's argument, None for addKnownTypeFromTable
    decoder,     \* argument of addKnownTypeFromTable
    made,        \* decoders built and stored so far
    answer,      \* what getDecoder returned last, with its argument (history)
    registered,  \* what the application registered last for a type (history)
    touched      \* types the application ever registered or removed (history)

client == <<pc, typeId, decoder, answer>>
vars == <<knownTypes, client, made, registered, touched>>

NoAnswer == [type |-> None, decoder |-> None]

-----------------------------------------------------------------------------

Init ==
    /\ knownTypes = [ty \in TypeIds |-> None]
    /\ pc = [t \in Threads |-> "idle"]
    /\ typeId = [t \in Threads |-> None]
    /\ decoder = [t \in Threads |-> None]
    /\ made = 0
    /\ answer = [t \in Threads |-> NoAnswer]
    /\ registered = [ty \in TypeIds |-> None]
    /\ touched = {}

Go(t, place, ty, d) ==
    /\ pc[t] = "idle"
    /\ pc' = [pc EXCEPT ![t] = place]
    /\ typeId' = [typeId EXCEPT ![t] = ty]
    /\ decoder' = [decoder EXCEPT ![t] = d]

Return(t) ==
    /\ pc' = [pc EXCEPT ![t] = "idle"]
    /\ typeId' = [typeId EXCEPT ![t] = None]
    /\ decoder' = [decoder EXCEPT ![t] = None]

AnswerWith(t, ty, d) == answer' = [answer EXCEPT ![t] = [type |-> ty, decoder |-> d]]

\* getDecoder of a type that is cached.
GetHit(t, ty) ==
    /\ pc[t] = "idle"
    /\ knownTypes[ty] # None
    /\ AnswerWith(t, ty, knownTypes[ty])
    /\ UNCHANGED <<knownTypes, pc, typeId, decoder, made, registered, touched>>

\* getDecoder of a type that is not: it goes to ask the server.
GetMiss(t, ty) ==
    /\ knownTypes[ty] = None
    /\ Go(t, "get", ty, None)
    /\ UNCHANGED <<knownTypes, made, answer, registered, touched>>

\* setDecoderIfMissing of a type that is missing: it goes to build a decoder.
SetMissing(t, ty) ==
    /\ knownTypes[ty] = None
    /\ Go(t, "setIfMissing", ty, None)
    /\ UNCHANGED <<knownTypes, made, answer, registered, touched>>

\* The request fails, the server knows no such type, or its schema is not
\* understood: an exception, with nothing stored.
FetchFails(t) ==
    /\ pc[t] \in {"get", "setIfMissing"}
    /\ answer' = [answer EXCEPT ![t] = IF pc[t] = "get" THEN NoAnswer ELSE @]
    /\ Return(t)
    /\ UNCHANGED <<knownTypes, made, registered, touched>>

StillMissingUnchecked(t) == TRUE \* mutant: does not look again
StillMissing(t) == knownTypes[typeId[t]] = None

\* Somebody else was faster: the new decoder is dropped for the cached one.
StoreFoundOwn(t) == \* mutant: answers with its own decoder all the same
    /\ pc[t] \in {"get", "setIfMissing"}
    /\ ~StillMissing(t)
    /\ made < MaxMade
    /\ made' = made + 1
    /\ IF pc[t] = "get" THEN AnswerWith(t, typeId[t], made + 1) ELSE UNCHANGED answer
    /\ Return(t)
    /\ UNCHANGED <<knownTypes, registered, touched>>
StoreFound(t) ==
    /\ pc[t] \in {"get", "setIfMissing"}
    /\ ~StillMissing(t)
    /\ IF pc[t] = "get" THEN AnswerWith(t, typeId[t], knownTypes[typeId[t]]) ELSE UNCHANGED answer
    /\ Return(t)
    /\ UNCHANGED <<knownTypes, made, registered, touched>>

StoreNew(t) ==
    /\ pc[t] \in {"get", "setIfMissing"}
    /\ StillMissing(t)
    /\ made < MaxMade
    /\ made' = made + 1
    /\ knownTypes' = [knownTypes EXCEPT ![typeId[t]] = made + 1]
    /\ IF pc[t] = "get" THEN AnswerWith(t, typeId[t], made + 1) ELSE UNCHANGED answer
    /\ Return(t)
    /\ UNCHANGED <<registered, touched>>

-----------------------------------------------------------------------------

\* A null decoder removes the entry, any other replaces it.
Register(ty, d) ==
    /\ knownTypes' = [knownTypes EXCEPT ![ty] = d]
    /\ registered' = [registered EXCEPT ![ty] = d]
    /\ touched' = touched \cup {ty}

AddKnownType(t, ty, d) ==
    /\ pc[t] = "idle"
    /\ Register(ty, d)
    /\ UNCHANGED <<client, made>>

\* addKnownTypeFromTable asks the server for the type of the table first.
AddFromTable(t, d) ==
    /\ Go(t, "showTable", None, d)
    /\ UNCHANGED <<knownTypes, made, answer, registered, touched>>

\* The request fails, there is no such table, or it has several types.
ShowTableFails(t) ==
    /\ pc[t] = "showTable"
    /\ Return(t)
    /\ UNCHANGED <<knownTypes, made, answer, registered, touched>>

ShowTableAnswered(t, ty) ==
    /\ pc[t] = "showTable"
    /\ Register(ty, decoder[t])
    /\ Return(t)
    /\ UNCHANGED <<made, answer>>

-----------------------------------------------------------------------------

Next ==
    \E t \in Threads :
        \/ FetchFails(t) \/ StoreFound(t) \/ StoreNew(t) \/ ShowTableFails(t)
        \/ \E ty \in TypeIds :
              \/ GetHit(t, ty) \/ GetMiss(t, ty) \/ SetMissing(t, ty) \/ ShowTableAnswered(t, ty)
              \/ \E d \in UserDecoders \cup {None} : AddKnownType(t, ty, d)
        \/ \E d \in UserDecoders \cup {None} : AddFromTable(t, d)

Spec == Init /\ [][Next]_vars

-----------------------------------------------------------------------------

(* A decoder the application registered stays until the application replaces  *)
(* or removes it: a getDecoder or setDecoderIfMissing that found the type     *)
(* missing before, and comes back with a generic decoder after, leaves it.    *)
RegisteredStays ==
    \A ty \in TypeIds : registered[ty] # None => knownTypes[ty] = registered[ty]

(* Threads that ask for a type the application never touched all get the same *)
(* decoder, the cached one, however many of them missed it at the same time.  *)
OneDecoderForAll ==
    \A t \in Threads :
        answer[t].type \in TypeIds \ touched => answer[t].decoder = knownTypes[answer[t].type]

(* The cache with its gap between the two looks implements one whose calls    *)
(* take effect at one instant.                                                *)
Atomic == INSTANCE AtomicCache
    WITH cached <- knownTypes, given <- 1..made, Decoders <- 1..MaxMade
AtomicSpec == Atomic!Spec
=============================================================================
