------------------------------ MODULE Process -------------------------------
(***************************************************************************)
(* What a declared process promises of a record (model.go, Process): it    *)
(* moves along a declared transition and then along every automatic step   *)
(* that follows, or is escalated from a state with a time budget.  A state *)
(* may demand evidence of whoever enters it; an automatic step without the *)
(* evidence is not taken.                                                  *)
(***************************************************************************)
CONSTANTS States, First, Nil

VARIABLES
    process,    \* the declaration
    status,     \* the record's state
    evidence    \* whether the record has the evidence gated states demand

\* transitions and auto: pairs <<from, to>>; sla[s]: where a breach of the
\* budget of s escalates to; gated: the states that demand evidence.
Declaration == [transitions : SUBSET (States \X States), auto : SUBSET (States \X States),
                sla : UNION {[S -> States \cup {Nil}] : S \in SUBSET States},
                gated : SUBSET States]

May(p, e, s) == e \/ s \notin p.gated

\* The states a record landing on s passes through: s, and what the automatic
\* steps lead to.
Passed(p, e, s) ==
    LET closed(S) == \A a \in p.auto : a[1] \in S /\ May(p, e, a[2]) => a[2] \in S
    IN  {x \in States : \A S \in SUBSET States : s \in S /\ closed(S) => x \in S}

Rests(p, e, s) == \A a \in p.auto : a[1] = s => ~May(p, e, a[2])

Init == /\ process \in Declaration
        /\ status = First
        /\ evidence \in BOOLEAN

Transition ==
    \E t \in process.transitions :
        /\ t[1] = status /\ May(process, evidence, t[2])
        /\ status' \in {s \in Passed(process, evidence, t[2]) : Rests(process, evidence, s)}
        /\ UNCHANGED <<process, evidence>>

Escalate ==
    /\ status \in DOMAIN process.sla
    /\ process.sla[status] # Nil /\ May(process, evidence, process.sla[status])
    /\ status' = process.sla[status]
    /\ UNCHANGED <<process, evidence>>

Evidence == evidence' = ~evidence /\ UNCHANGED <<process, status>>

Next == Transition \/ Escalate \/ Evidence

Spec == Init /\ [][Next]_<<process, status, evidence>>
=============================================================================
