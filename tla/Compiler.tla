------------------------------ MODULE Compiler ------------------------------
(***************************************************************************)
(* The process compiler (CAP-W01, W04; compile.go) and what the runtime    *)
(* does with its result.  A declared process becomes events guarded by the *)
(* status they leave: people fire those of transitions, a chained          *)
(* trigger_event those of automatic steps, and the scheduler those of      *)
(* breached time budgets, on the day stamped into a due-date field.        *)
(* Nothing of the declaration is left at run time.                         *)
(*                                                                         *)
(* One record of one machine.  A request fires one event and what it       *)
(* triggers in one transaction; requests come one at a time (Approval has  *)
(* those that overlap).                                                    *)
(***************************************************************************)
EXTENDS Integers

CONSTANTS
    States, First,  \* First is the first state declared
    Declarations,   \* bound: the processes considered
    Budget,         \* every time budget, in days
    Lags,           \* days by which the date "today + N" starts from runs behind UTC
    LastDay,        \* bound: the last day
    Nil

VARIABLES
    process,    \* the declaration
    machine,    \* the events it compiled to
    saved,      \* the record as committed
    rec,        \* the record as the open transaction has it
    open,       \* a request is under way
    next,       \* the event it fires next, if any
    evidence,   \* the counter satisfies the cardinality
    fired,      \* fired[s]: the last day the breach event of s fired
    day, lag,
    missed      \* history: some day ended with a breach that was due and not fired

vars == <<process, machine, saved, rec, open, next, evidence, fired, day, lag, missed>>

Declared == INSTANCE Process WITH status <- saved.status

ASSUME CompilerAssumption ==
    /\ First \in States /\ Nil \notin States \cup Nat
    /\ Declarations \subseteq Declared!Declaration
    /\ Budget \in Nat /\ Lags \subseteq 0..1 /\ LastDay \in Nat

\* by: what fires the event; to: the state its first action sets; stamps: it
\* sets the due date of that state; triggers: it fires the automatic event
\* that leaves that state.
Event == [by : {"person", "auto", "breach"}, from : States, to : States,
          stamps : BOOLEAN, triggers : BOOLEAN]

\* since, breached: history.  The day a transition or an automatic step entered
\* the state, Nil if the record was created in it or escalated to it; whether
\* the budget of the state has been breached since.
Record == [status : States, due : [States -> Int \cup {Nil}],
           since : Nat \cup {Nil}, breached : BOOLEAN]

----------------------------------------------------------------------------
(* Compiling. *)

Steps(p) ==
    {[by |-> "person", from |-> t[1], to |-> t[2], stamps |-> FALSE, triggers |-> FALSE] : t \in p.transitions}
    \cup {[by |-> "auto", from |-> a[1], to |-> a[2], stamps |-> FALSE, triggers |-> FALSE] : a \in p.auto}

\* Only the events of transitions are chained.
ChainTransitions(p, e) == [e EXCEPT !.triggers = e.by = "person" /\ \E a \in p.auto : a[1] = e.to]

\* Every event landing on the from-state of an automatic step triggers it.
Chain(p, e) == [e EXCEPT !.triggers = \E a \in p.auto : a[1] = e.to]

\* Only the events of transitions are stamped.
StampTransitions(p, e) == [e EXCEPT !.stamps = e.by = "person" /\ e.to \in DOMAIN p.sla]

\* compileSLA patches the events by the state their first action sets ...
Stamp(p, e) == [e EXCEPT !.stamps = e.to \in DOMAIN p.sla]

\* ... and appends its own, whose first action notifies: they are neither
\* stamped by another budget nor chained, which happened before.
Breaches(p) ==
    {[by |-> "breach", from |-> s, to |-> IF p.sla[s] = Nil THEN s ELSE p.sla[s],
      stamps |-> FALSE, triggers |-> FALSE] : s \in DOMAIN p.sla}

Compile(p) == {Stamp(p, Chain(p, e)) : e \in Steps(p)} \cup Breaches(p)

Unambiguous(p) == \A a, b \in p.auto : a[1] = b[1] => a = b

\* What is reached from the states of S, however the edges are followed.
Closure(S, edges) ==
    LET closed(R) == \A g \in edges : g[1] \in R => g[2] \in R
    IN  {x \in States : \A R \in SUBSET States : S \subseteq R /\ closed(R) => x \in R}

Acyclic(p) == \A a \in p.auto : a[1] \notin Closure({a[2]}, p.auto)

Edges(p) == p.transitions \cup p.auto \cup {<<s, p.sla[s]>> : s \in {q \in DOMAIN p.sla : p.sla[q] # Nil}}

\* An edge counts wherever it starts.
AllTargeted(p) == States \subseteq {First} \cup {g[2] : g \in Edges(p)}

AllReached(p) == States \subseteq Closure({First}, Edges(p))

Accepted(p) == /\ p.transitions # {}
               /\ Unambiguous(p) /\ Acyclic(p) /\ AllReached(p)

----------------------------------------------------------------------------
(* Running. *)

Init ==
    /\ process \in {p \in Declarations : Accepted(p)}
    /\ machine = Compile(process)
    /\ saved = [status |-> First, due |-> [s \in States |-> Nil], since |-> Nil, breached |-> FALSE]
    /\ rec = saved /\ open = FALSE /\ next = {}
    /\ evidence \in BOOLEAN
    /\ fired = [s \in States |-> Nil]
    /\ day = 0 /\ lag \in Lags /\ missed = FALSE

\* CAP-E06's guard, and the generated constraint, which demands the evidence of
\* every write that leaves the record in a gated state.
Allowed(e, r) == e.from = r.status /\ (e.to \notin process.gated \/ evidence)

\* Simulate: the status, then the due date.
Applied(e, r) ==
    [status |-> e.to,
     due |-> [r.due EXCEPT ![e.to] = IF e.stamps THEN day + Budget - lag ELSE @],
     since |-> IF e.by # "breach" THEN day ELSE IF e.to = e.from THEN r.since ELSE Nil,
     breached |-> FALSE]

Triggered(e) == {f \in machine : e.triggers /\ f.by = "auto" /\ f.from = e.to}

Trigger(e) ==
    /\ ~open /\ e.by = "person" /\ Allowed(e, saved)
    /\ open' = TRUE
    /\ rec' = Applied(e, saved)
    /\ next' = Triggered(e)
    /\ UNCHANGED <<process, machine, saved, evidence, fired, day, lag, missed>>

\* doTriggerEvent: a chained event that is refused is logged and ends the chain.
TriggerChained(e) ==
    /\ e \in next
    /\ IF Allowed(e, rec)
       THEN rec' = Applied(e, rec) /\ next' = Triggered(e)
       ELSE next' = {} /\ UNCHANGED rec
    /\ UNCHANGED <<process, machine, saved, open, evidence, fired, day, lag, missed>>

Commit ==
    /\ open /\ next = {}
    /\ saved' = rec /\ open' = FALSE
    /\ UNCHANGED <<process, machine, rec, next, evidence, fired, day, lag, missed>>

\* The transaction is lost.
Abort ==
    /\ open
    /\ rec' = saved /\ open' = FALSE /\ next' = {}
    /\ UNCHANGED <<process, machine, saved, evidence, fired, day, lag, missed>>

\* dateFieldDue, FiredToday and the guard.
DueNow(e) == e.by = "breach" /\ saved.status = e.from /\ saved.due[e.from] = day /\ fired[e.from] # day

\* A sweep of the scheduler.
Breach(e) ==
    /\ ~open /\ DueNow(e) /\ Allowed(e, saved)
    /\ saved' = [Applied(e, saved) EXCEPT !.breached = TRUE]
    /\ rec' = saved'
    /\ fired' = [fired EXCEPT ![e.from] = day]
    /\ UNCHANGED <<process, machine, open, next, evidence, day, lag, missed>>

\* Evidence is attached or exceeds what is allowed.
Evidence ==
    /\ ~open
    /\ evidence' = ~evidence
    /\ UNCHANGED <<process, machine, saved, rec, open, next, fired, day, lag, missed>>

\* No sweep need have come to a breach before the day ends.
Midnight ==
    /\ ~open /\ day < LastDay
    /\ day' = day + 1
    /\ missed' = (missed \/ \E e \in machine : DueNow(e))
    /\ UNCHANGED <<process, machine, saved, rec, open, next, evidence, fired, lag>>

Next ==
    \/ \E e \in machine : Trigger(e) \/ TriggerChained(e) \/ Breach(e)
    \/ Commit \/ Abort \/ Evidence \/ Midnight

Spec == Init /\ [][Next]_vars

----------------------------------------------------------------------------
TypeOK ==
    /\ machine \subseteq Event
    /\ saved \in Record /\ rec \in Record
    /\ open \in BOOLEAN /\ next \subseteq machine
    /\ evidence \in BOOLEAN /\ missed \in BOOLEAN
    /\ fired \in [States -> Nat \cup {Nil}]
    /\ day \in 0..LastDay /\ lag \in Lags

\* "declared process, emergent execution" (compile.go:18): the events a process
\* compiles to move a record as the process declares and no other way, through
\* every automatic step, although each event knows only the next one.
DeclaredProcess == Declared!Spec

\* A record that a transition or an automatic step left in a state with a time
\* budget, and that is still there when the budget's day is over, has been
\* breached, if no day ended on a breach left undone.  A budget no longer than
\* the lag of the zone is excepted: it is due before it starts.
BreachedOnTime ==
    /\ saved.since # Nil /\ saved.status \in DOMAIN process.sla
    /\ Budget > lag /\ ~missed /\ day > saved.since + Budget
    => saved.breached

\* Event f can fire once those of F have: an automatic one right after an event
\* that triggers it, any other where the record came to rest, and a breach only
\* where it was stamped.
Firable(f, F) ==
    \/ f.by = "person" /\ f.from = First
    \/ f.by = "person" /\ \E g \in F : g.to = f.from /\ ~g.triggers
    \/ f.by = "auto"   /\ \E g \in F : g.to = f.from /\ g.triggers
    \/ f.by = "breach" /\ \E g \in F : g.to = f.from /\ ~g.triggers /\ g.stamps

\* The events some run of the machine fires, with the evidence they demand ...
Fired ==
    {e \in machine : \A F \in SUBSET machine :
        (\A f \in machine : Firable(f, F) => f \in F) => e \in F}

\* ... and the states it passes through.
Run == {First} \cup {e.to : e \in Fired}

\* Creation and escalation fire nothing, and nobody stops on the way of an
\* automatic step: processes that declare neither.
Straight(p) ==
    LET on(s) == s \in DOMAIN p.sla \/ \E a \in p.auto : a[1] = s
    IN  /\ ~on(First)
        /\ \A s \in DOMAIN p.sla : ~on(p.sla[s])
        /\ \A a \in p.auto : a[1] \notin DOMAIN p.sla /\ \A t \in p.transitions : t[1] # a[1]

\* compile.go:201-230: a process is refused when a state cannot be reached; of
\* one that is accepted and straight, the machine really reaches every state.
EveryStateReached == Straight(process) => States \subseteq Run
=============================================================================
