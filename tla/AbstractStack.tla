--------------------------- MODULE AbstractStack ---------------------------
(***************************************************************************)
(* What lf::stack promises its callers: a last-in first-out store in which *)
(* each call takes effect at one instant between its start and its return. *)
(***************************************************************************)
EXTENDS Sequences

CONSTANTS Threads, Values, NoValue

VARIABLES
    contents, \* the stacked values, top first
    call,     \* the call of each thread: "none", "push", "pop", "clear", "done"
    answer    \* argument of a call that has not taken effect, then its result

vars == <<contents, call, answer>>

Init ==
    /\ contents = <<>>
    /\ call = [t \in Threads |-> "none"]
    /\ answer = [t \in Threads |-> NoValue]

Start(t) ==
    /\ call[t] = "none"
    /\ \/ \E v \in Values :
            /\ call' = [call EXCEPT ![t] = "push"]
            /\ answer' = [answer EXCEPT ![t] = v]
       \/ /\ \E kind \in {"pop", "clear"} : call' = [call EXCEPT ![t] = kind]
          /\ UNCHANGED answer
    /\ UNCHANGED contents

TakeEffect(t, kind, newContents, newAnswer) ==
    /\ call[t] = kind
    /\ call' = [call EXCEPT ![t] = "done"]
    /\ contents' = newContents
    /\ answer' = [answer EXCEPT ![t] = newAnswer]

Push(t) == TakeEffect(t, "push", <<answer[t]>> \o contents, NoValue)

Pop(t) ==
    \/ contents # <<>> /\ TakeEffect(t, "pop", Tail(contents), Head(contents))
    \/ contents = <<>> /\ TakeEffect(t, "pop", contents, NoValue)

Clear(t) == TakeEffect(t, "clear", <<>>, NoValue)

Return(t) ==
    /\ call[t] = "done"
    /\ call' = [call EXCEPT ![t] = "none"]
    /\ answer' = [answer EXCEPT ![t] = NoValue]
    /\ UNCHANGED contents

Next == \E t \in Threads : Start(t) \/ Push(t) \/ Pop(t) \/ Clear(t) \/ Return(t)

Spec == Init /\ [][Next]_vars
=============================================================================
