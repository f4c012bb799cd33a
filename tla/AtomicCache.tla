------------------------------ MODULE AtomicCache ------------------------------
(***************************************************************************)
(* What the users of one GPUdb object may expect of its cache of decoders, *)
(* with nothing about locks or requests: every call takes effect at one    *)
(* instant.  At that instant it answers with the decoder that is cached,   *)
(* or it caches one that nobody has seen, or it fails; only the            *)
(* application replaces or removes what is cached.                         *)
(***************************************************************************)

CONSTANTS
    Threads,
    TypeIds,
    Decoders,      \* those the client makes
    UserDecoders,  \* those the application registers
    None

VARIABLES
    cached,  \* the decoder of each type, or None
    given,   \* decoders the client has made so far
    answer   \* the type and decoder each thread was answered with last

vars == <<cached, given, answer>>

NoAnswer == [type |-> None, decoder |-> None]

Init ==
    /\ cached = [ty \in TypeIds |-> None]
    /\ given = {}
    /\ answer = [t \in Threads |-> NoAnswer]

AnswerWith(t, ty, d) == answer' = [answer EXCEPT ![t] = [type |-> ty, decoder |-> d]]

Hit(t, ty) ==
    /\ cached[ty] # None
    /\ AnswerWith(t, ty, cached[ty])
    /\ UNCHANGED <<cached, given>>

Fill(t, ty, d) ==
    /\ cached[ty] = None
    /\ d \notin given
    /\ cached' = [cached EXCEPT ![ty] = d]
    /\ given' = given \cup {d}
    /\ AnswerWith(t, ty, d) \/ UNCHANGED answer

Fail(t) ==
    /\ answer' = [answer EXCEPT ![t] = NoAnswer]
    /\ UNCHANGED <<cached, given>>

Register(ty, d) ==
    /\ cached' = [cached EXCEPT ![ty] = d]
    /\ UNCHANGED <<given, answer>>

Next ==
    \/ \E t \in Threads, ty \in TypeIds : Hit(t, ty) \/ \E d \in Decoders : Fill(t, ty, d)
    \/ \E t \in Threads : Fail(t)
    \/ \E ty \in TypeIds, d \in UserDecoders \cup {None} : Register(ty, d)

Spec == Init /\ [][Next]_vars
=============================================================================
