--------------------------- MODULE CompilerProofs ---------------------------
(***************************************************************************)
(* What a process compiles to moves a record as the process declares,      *)
(* breaches its budgets on time and reaches every state, for any processes *)
(* over any states, any budget and any number of days.                     *)
(***************************************************************************)
EXTENDS Compiler, TLAPS

----------------------------------------------------------------------------
(* What the machine is made of. *)

\* A compiled transition or automatic step.
Edge(p, by, g) == [by |-> by, from |-> g[1], to |-> g[2],
                   stamps |-> g[2] \in DOMAIN p.sla,
                   triggers |-> \E a \in p.auto : a[1] = g[2]]

\* The compiled breach of the budget of s.
Over(p, s) == [by |-> "breach", from |-> s, to |-> IF p.sla[s] = Nil THEN s ELSE p.sla[s],
               stamps |-> FALSE, triggers |-> FALSE]

\* The parts of a declaration have their types.
LEMMA DeclarationParts ==
  ASSUME NEW p \in Declared!Declaration
  PROVE  /\ \A t \in p.transitions : t[1] \in States /\ t[2] \in States /\ t = <<t[1], t[2]>>
         /\ \A a \in p.auto : a[1] \in States /\ a[2] \in States /\ a = <<a[1], a[2]>>
         /\ \A s \in DOMAIN p.sla : s \in States /\ p.sla[s] \in States \cup {Nil}
  <1>1. p.transitions \subseteq States \X States /\ p.auto \subseteq States \X States
    BY DEF Declared!Declaration
  <1>2. p.sla \in UNION {[S -> States \cup {Nil}] : S \in SUBSET States}
    BY DEF Declared!Declaration
  <1>3. PICK S \in SUBSET States : p.sla \in [S -> States \cup {Nil}]
    BY <1>2
  <1> QED
    BY <1>1, <1>3

\* Stamping and chaining leave what an event sets.
LEMMA Stamped ==
  ASSUME NEW p, NEW by, NEW x, NEW y
  PROVE  Stamp(p, Chain(p, [by |-> by, from |-> x, to |-> y, stamps |-> FALSE, triggers |-> FALSE]))
           = [by |-> by, from |-> x, to |-> y, stamps |-> y \in DOMAIN p.sla,
              triggers |-> \E a \in p.auto : a[1] = y]
  <1> DEFINE e == [by |-> by, from |-> x, to |-> y, stamps |-> FALSE, triggers |-> FALSE]
  <1>1. PICK on : on = (\E a \in p.auto : a[1] = y)
    OBVIOUS
  <1>2. PICK in : in = (y \in DOMAIN p.sla)
    OBVIOUS
  <1>3. Chain(p, e) = [by |-> by, from |-> x, to |-> y, stamps |-> FALSE, triggers |-> on]
    <2>1. \A u, v : [[by |-> by, from |-> x, to |-> y, stamps |-> u, triggers |-> v]
                        EXCEPT !.triggers = on]
                     = [by |-> by, from |-> x, to |-> y, stamps |-> u, triggers |-> on]
      OBVIOUS
    <2>2. e.to = y
      OBVIOUS
    <2>3. [e EXCEPT !.triggers = on]
             = [by |-> by, from |-> x, to |-> y, stamps |-> FALSE, triggers |-> on]
      BY <2>1, Zenon
    <2> HIDE DEF e
    <2> QED
      BY <1>1, <2>2, <2>3, Zenon DEF Chain
  <1>4. \A c : c = [by |-> by, from |-> x, to |-> y, stamps |-> FALSE, triggers |-> on] =>
               /\ c.to = y
               /\ [c EXCEPT !.stamps = in]
                    = [by |-> by, from |-> x, to |-> y, stamps |-> in, triggers |-> on]
    OBVIOUS
  <1> HIDE DEF e
  <1>5. Stamp(p, Chain(p, e)) = [by |-> by, from |-> x, to |-> y, stamps |-> in, triggers |-> on]
    BY <1>2, <1>3, <1>4, Zenon DEF Stamp
  <1> QED
    BY <1>1, <1>2, <1>5, Zenon DEF e

\* A machine is the edges of its process and the breaches of its budgets.
LEMMA MachineParts ==
  ASSUME NEW p
  PROVE  Compile(p) = {Edge(p, "person", t) : t \in p.transitions}
                      \cup {Edge(p, "auto", a) : a \in p.auto}
                      \cup {Over(p, s) : s \in DOMAIN p.sla}
  <1> DEFINE plain(by, g) == [by |-> by, from |-> g[1], to |-> g[2],
                              stamps |-> FALSE, triggers |-> FALSE]
  <1>1. \A by, g : Stamp(p, Chain(p, plain(by, g))) = Edge(p, by, g)
    BY Stamped DEF Edge
  <1>2. Steps(p) = {plain("person", t) : t \in p.transitions}
                   \cup {plain("auto", a) : a \in p.auto}
    BY DEF Steps
  <1>3. Breaches(p) = {Over(p, s) : s \in DOMAIN p.sla}
    BY DEF Breaches, Over
  <1> HIDE DEF plain
  <1>4. {Stamp(p, Chain(p, e)) : e \in Steps(p)}
          = {Stamp(p, Chain(p, plain("person", t))) : t \in p.transitions}
            \cup {Stamp(p, Chain(p, plain("auto", a))) : a \in p.auto}
    BY <1>2, Zenon
  <1>5. {Stamp(p, Chain(p, e)) : e \in Steps(p)}
          = {Edge(p, "person", t) : t \in p.transitions} \cup {Edge(p, "auto", a) : a \in p.auto}
    BY <1>1, <1>4, Zenon
  <1> QED
    BY <1>3, <1>5, Zenon DEF Compile

\* What each kind of event of a machine does.
LEMMA EventParts ==
  ASSUME NEW p \in Declared!Declaration, NEW e \in Compile(p)
  PROVE  /\ e \in Event
         /\ e.by = "person" => <<e.from, e.to>> \in p.transitions
         /\ e.by = "auto" => <<e.from, e.to>> \in p.auto
         /\ e.by # "breach" => /\ e.stamps <=> e.to \in DOMAIN p.sla
                               /\ e.triggers <=> \E a \in p.auto : a[1] = e.to
         /\ e.by = "breach" => /\ e.from \in DOMAIN p.sla /\ ~e.stamps /\ ~e.triggers
                               /\ e.to = IF p.sla[e.from] = Nil THEN e.from ELSE p.sla[e.from]
  <1>1. ASSUME NEW by \in {"person", "auto"}, NEW g, g = <<g[1], g[2]>>,
               g[1] \in States, g[2] \in States,
               by = "person" => g \in p.transitions, by = "auto" => g \in p.auto,
               e = Edge(p, by, g)
        PROVE  /\ e \in Event /\ e.by = by /\ <<e.from, e.to>> = g
               /\ e.stamps <=> e.to \in DOMAIN p.sla
               /\ e.triggers <=> \E a \in p.auto : a[1] = e.to
    <2>1. PICK on \in BOOLEAN : on = (\E a \in p.auto : a[1] = g[2])
      OBVIOUS
    <2> DEFINE in == g[2] \in DOMAIN p.sla
    <2>2. in \in BOOLEAN
      OBVIOUS
    <2>3. e = [by |-> by, from |-> g[1], to |-> g[2], stamps |-> in, triggers |-> on]
      BY <1>1, <2>1, Zenon DEF Edge
    <2> HIDE DEF in
    <2>4. /\ e \in Event /\ e.by = by /\ e.from = g[1] /\ e.to = g[2]
          /\ e.stamps = in /\ e.triggers = on
      BY <1>1, <2>1, <2>2, <2>3 DEF Event
    <2> QED
      BY <1>1, <2>1, <2>4 DEF in
  <1>2. ASSUME NEW s \in DOMAIN p.sla, e = Over(p, s)
        PROVE  /\ e \in Event /\ e.by = "breach" /\ e.from = s /\ ~e.stamps /\ ~e.triggers
               /\ e.to = IF p.sla[s] = Nil THEN s ELSE p.sla[s]
    <2>1. s \in States /\ p.sla[s] \in States \cup {Nil}
      BY DeclarationParts
    <2> QED
      BY <1>2, <2>1 DEF Over, Event
  <1>3. \/ \E t \in p.transitions : e = Edge(p, "person", t)
        \/ \E a \in p.auto : e = Edge(p, "auto", a)
        \/ \E s \in DOMAIN p.sla : e = Over(p, s)
    BY MachineParts, Zenon
  <1>4. CASE \E t \in p.transitions : e = Edge(p, "person", t)
    <2>1. PICK t \in p.transitions : e = Edge(p, "person", t)
      BY <1>4
    <2>2. t[1] \in States /\ t[2] \in States /\ t = <<t[1], t[2]>>
      BY DeclarationParts
    <2>3. /\ e \in Event /\ e.by = "person" /\ <<e.from, e.to>> = t
          /\ e.stamps <=> e.to \in DOMAIN p.sla
          /\ e.triggers <=> \E a \in p.auto : a[1] = e.to
      BY <1>1, <2>1, <2>2
    <2> QED
      BY <2>3
  <1>5. CASE \E a \in p.auto : e = Edge(p, "auto", a)
    <2>1. PICK t \in p.auto : e = Edge(p, "auto", t)
      BY <1>5
    <2>2. t[1] \in States /\ t[2] \in States /\ t = <<t[1], t[2]>>
      BY DeclarationParts
    <2>3. /\ e \in Event /\ e.by = "auto" /\ <<e.from, e.to>> = t
          /\ e.stamps <=> e.to \in DOMAIN p.sla
          /\ e.triggers <=> \E a \in p.auto : a[1] = e.to
      BY <1>1, <2>1, <2>2
    <2> QED
      BY <2>3
  <1>6. CASE \E s \in DOMAIN p.sla : e = Over(p, s)
    BY <1>2, <1>6
  <1> QED
    BY <1>3, <1>4, <1>5, <1>6

----------------------------------------------------------------------------
(* Type correctness. *)

\* The machine is what an accepted declaration compiled to, only automatic events
\* are chained, and between requests nothing is half done.
Compiled ==
    /\ process \in Declared!Declaration /\ Accepted(process)
    /\ machine = Compile(process)
    /\ \A e \in next : e.by = "auto"
    /\ ~open => rec = saved /\ next = {}

TypeInv == TypeOK /\ Compiled

\* Firing an event leaves a record.
LEMMA AppliedTyped ==
  ASSUME TypeInv, NEW e \in machine, NEW r \in Record
  PROVE  Applied(e, r) \in Record /\ Applied(e, r).status = e.to /\ ~Applied(e, r).breached
  <1>1. e \in Event
    BY DEF TypeInv, TypeOK
  <1>2. day \in Nat /\ lag \in Int /\ Budget \in Nat
    BY CompilerAssumption DEF TypeInv, TypeOK
  <1>3. day + Budget - lag \in Int
    BY <1>2
  <1> QED
    BY <1>1, <1>2, <1>3 DEF Applied, Record, Event

\* Initially nothing has happened to a record of an accepted process.
LEMMA InitTypes == Init => TypeInv
  <1> SUFFICES ASSUME Init PROVE TypeInv
    OBVIOUS
  <1>1. process \in Declared!Declaration /\ Accepted(process) /\ machine = Compile(process)
    BY CompilerAssumption DEF Init
  <1>2. machine \subseteq Event
    BY <1>1, EventParts
  <1>3. saved \in Record
    BY CompilerAssumption DEF Init, Record
  <1>4. fired \in [States -> Nat \cup {Nil}] /\ day \in 0..LastDay /\ lag \in Lags
    BY CompilerAssumption DEF Init
  <1> QED
    BY <1>1, <1>2, <1>3, <1>4 DEF Init, TypeInv, TypeOK, Compiled

\* Every step keeps the types.
LEMMA StepTypes == ASSUME TypeInv, [Next]_vars PROVE TypeInv'
  <1>1. CASE UNCHANGED vars
    BY <1>1 DEF vars, TypeInv, TypeOK, Compiled
  <1>2. ASSUME NEW e \in machine, Trigger(e) PROVE TypeInv'
    <2>1. Applied(e, saved) \in Record
      BY AppliedTyped DEF TypeInv, TypeOK
    <2>2. Triggered(e) \subseteq machine /\ \A f \in Triggered(e) : f.by = "auto"
      BY DEF Triggered
    <2> QED
      BY <1>2, <2>1, <2>2 DEF Trigger, TypeInv, TypeOK, Compiled
  <1>3. ASSUME NEW e \in machine, TriggerChained(e) PROVE TypeInv'
    <2>1. Applied(e, rec) \in Record
      BY AppliedTyped DEF TypeInv, TypeOK
    <2>2. Triggered(e) \subseteq machine /\ \A f \in Triggered(e) : f.by = "auto"
      BY DEF Triggered
    <2>3. open
      BY <1>3 DEF TriggerChained, TypeInv, Compiled
    <2> QED
      BY <1>3, <2>1, <2>2, <2>3 DEF TriggerChained, TypeInv, TypeOK, Compiled
  <1>4. ASSUME NEW e \in machine, Breach(e) PROVE TypeInv'
    <2>1. Applied(e, saved) \in Record
      BY AppliedTyped DEF TypeInv, TypeOK
    <2>2. saved' \in Record
      BY <1>4, <2>1 DEF Breach, Record
    <2>3. fired' \in [States -> Nat \cup {Nil}]
      <3>1. day \in Nat \cup {Nil}
        BY CompilerAssumption DEF TypeInv, TypeOK
      <3> QED
        BY <1>4, <3>1 DEF Breach, TypeInv, TypeOK
    <2> QED
      BY <1>4, <2>2, <2>3 DEF Breach, TypeInv, TypeOK, Compiled
  <1>5. CASE Commit
    BY <1>5 DEF Commit, TypeInv, TypeOK, Compiled
  <1>6. CASE Abort
    BY <1>6 DEF Abort, TypeInv, TypeOK, Compiled
  <1>7. CASE Evidence
    BY <1>7 DEF Evidence, TypeInv, TypeOK, Compiled
  <1>8. CASE Midnight
    <2>1. missed' \in BOOLEAN
      BY <1>8, Zenon DEF Midnight, TypeInv, TypeOK
    <2>2. day' \in 0..LastDay
      BY <1>8, CompilerAssumption DEF Midnight, TypeInv, TypeOK
    <2> QED
      BY <1>8, <2>1, <2>2 DEF Midnight, TypeInv, TypeOK, Compiled
  <1> QED
    BY <1>1, <1>2, <1>3, <1>4, <1>5, <1>6, <1>7, <1>8 DEF Next

----------------------------------------------------------------------------
(* Time budgets. *)

\* What is due of record r: a state it entered is due its budget later, has not
\* been breached before it was entered, and is not overdue while no day has ended
\* on a breach left undone.
Timely(r) ==
    /\ r.since # Nil => r.since <= day
    /\ r.since # Nil /\ r.status \in DOMAIN process.sla /\ ~r.breached =>
          /\ r.due[r.status] = r.since + Budget - lag
          /\ fired[r.status] # Nil => fired[r.status] <= r.since
          /\ Budget > lag /\ ~missed => day <= r.due[r.status]

TimeInv ==
    /\ TypeInv
    /\ \A s \in States : fired[s] # Nil => fired[s] <= day
    /\ Timely(saved) /\ Timely(rec)

\* The parts of the state that time is about.
LEMMA Clock ==
  ASSUME TypeInv
  PROVE  /\ day \in Nat /\ day # Nil /\ lag \in 0..1 /\ Budget \in Nat
         /\ \A s \in States : fired[s] # Nil => fired[s] \in Nat
         /\ \A r \in Record : /\ r.status \in States /\ r.breached \in BOOLEAN
                             /\ r.since # Nil => r.since \in Nat
  BY CompilerAssumption DEF TypeInv, TypeOK, Record

\* Whatever enters a state with a budget is stamped for it.
LEMMA AppliedTimely ==
  ASSUME TimeInv, NEW e \in machine, e.by # "breach", NEW r \in Record
  PROVE  Timely(Applied(e, r))
  <1>1. /\ Applied(e, r).status = e.to /\ Applied(e, r).since = day
        /\ e.to \in States
        /\ e.stamps => Applied(e, r).due[e.to] = day + Budget - lag
    <2>1. e \in Event /\ r.due \in [States -> Int \cup {Nil}]
      BY DEF TimeInv, TypeInv, TypeOK, Record
    <2> QED
      BY <2>1 DEF Applied, Event
  <1>2. e.stamps <=> e.to \in DOMAIN process.sla
    BY EventParts DEF TimeInv, TypeInv, Compiled
  <1>3. /\ day \in Nat /\ lag \in 0..1 /\ Budget \in Nat
        /\ fired[e.to] # Nil => fired[e.to] <= day
    BY <1>1, Clock DEF TimeInv
  <1>4. Budget > lag => day <= day + Budget - lag
    BY <1>3
  <1> HIDE DEF Applied
  <1> QED
    BY <1>1, <1>2, <1>3, <1>4 DEF Timely

\* A record nobody touched stays timely while the clock does not move.
LEMMA StillTimely ==
  ASSUME NEW r, Timely(r), UNCHANGED <<process, fired, day, lag, missed>>
  PROVE  Timely(r)'
  BY DEF Timely

\* Initially nothing is due.
LEMMA InitTime == Init => TimeInv
  <1> SUFFICES ASSUME Init PROVE TimeInv
    OBVIOUS
  <1>1. saved.since = Nil /\ rec = saved /\ \A s \in States : fired[s] = Nil
    BY DEF Init
  <1> QED
    BY <1>1, InitTypes DEF TimeInv, Timely

\* Every step keeps the records timely.
LEMMA StepTime == ASSUME TimeInv, [Next]_vars PROVE TimeInv'
  <1>1. TypeInv'
    BY StepTypes DEF TimeInv
  <1>2. PICK s \in Record, r \in Record : s = saved /\ r = rec
    BY DEF TimeInv, TypeInv, TypeOK
  <1>3. Timely(s) /\ Timely(r)
    BY <1>2 DEF TimeInv
  <1>4. ASSUME UNCHANGED <<process, fired, day, lag, missed>>,
               NEW u, NEW v, Timely(u), Timely(v), saved' = u, rec' = v
        PROVE  TimeInv'
    <2>1. Timely(u)' /\ Timely(v)'
      BY <1>4, StillTimely
    <2>2. Timely(saved)' /\ Timely(rec)'
      BY <1>4, <2>1 DEF Timely
    <2> QED
      BY <1>1, <1>4, <2>2 DEF TimeInv
  <1>5. CASE UNCHANGED vars
    BY <1>2, <1>3, <1>4, <1>5 DEF vars
  <1>6. ASSUME NEW e \in machine, Trigger(e) PROVE TimeInv'
    <2>1. PICK v : v = Applied(e, s)
      OBVIOUS
    <2>2. Timely(v)
      BY <1>6, <2>1, AppliedTimely DEF Trigger
    <2> QED
      BY <1>2, <1>3, <1>4, <1>6, <2>1, <2>2 DEF Trigger
  <1>7. ASSUME NEW e \in machine, TriggerChained(e) PROVE TimeInv'
    <2>1. PICK v : v = Applied(e, r)
      OBVIOUS
    <2>2. e.by # "breach"
      BY <1>7 DEF TriggerChained, TimeInv, TypeInv, Compiled
    <2>3. Timely(v)
      BY <2>1, <2>2, AppliedTimely
    <2>4. rec' = v \/ rec' = r
      BY <1>2, <1>7, <2>1 DEF TriggerChained
    <2> QED
      BY <1>2, <1>3, <1>4, <1>7, <2>3, <2>4 DEF TriggerChained
  <1>8. ASSUME NEW e \in machine, Breach(e) PROVE TimeInv'
    <2>1. /\ saved' = [Applied(e, s) EXCEPT !.breached = TRUE] /\ rec' = saved'
          /\ fired' = [fired EXCEPT ![e.from] = day]
          /\ UNCHANGED <<process, day, lag, missed>>
      BY <1>2, <1>8 DEF Breach
    <2>2. Applied(e, s) \in Record
      BY AppliedTyped DEF TimeInv
    <2>3. saved'.breached /\ saved'.since = Applied(e, s).since
      BY <2>1, <2>2 DEF Record
    <2>4. Applied(e, s).since # Nil => Applied(e, s).since <= day
      BY <1>3, <2>2, Clock DEF Applied, Timely, TimeInv
    <2>5. Timely(saved)' /\ Timely(rec)'
      BY <2>1, <2>3, <2>4 DEF Timely
    <2>6. \A q \in States : fired'[q] # Nil => fired'[q] <= day'
      BY <2>1, Clock DEF TimeInv, TypeInv, TypeOK
    <2> QED
      BY <1>1, <2>5, <2>6 DEF TimeInv
  <1>9. CASE Commit
    BY <1>2, <1>3, <1>4, <1>9 DEF Commit
  <1>10. CASE Abort
    BY <1>2, <1>3, <1>4, <1>10 DEF Abort
  <1>11. CASE Evidence
    BY <1>2, <1>3, <1>4, <1>11 DEF Evidence
  <1>12. CASE Midnight
    <2>1. /\ saved' = s /\ rec' = s /\ rec = s
          /\ UNCHANGED <<process, fired, lag>> /\ day' = day + 1
          /\ missed' = (missed \/ \E e \in machine : DueNow(e))
      BY <1>2, <1>12 DEF Midnight, TimeInv, TypeInv, Compiled
    <2>2. /\ day \in Nat /\ lag \in 0..1 /\ Budget \in Nat /\ s.status \in States
          /\ \A q \in States : fired[q] # Nil => fired[q] \in Nat
          /\ s.since # Nil => s.since \in Nat
      <3>1. TypeInv
        BY DEF TimeInv
      <3>2. /\ day \in Nat /\ lag \in 0..1 /\ Budget \in Nat
            /\ \A q \in States : fired[q] # Nil => fired[q] \in Nat
        BY <3>1, Clock
      <3>3. s.status \in States /\ (s.since # Nil => s.since \in Nat)
        BY <1>2 DEF Record
      <3> QED
        BY <3>2, <3>3
    <2>3. \A q \in States : fired'[q] # Nil => fired'[q] <= day'
      BY <2>1, <2>2 DEF TimeInv
    <2>4. ASSUME s.since # Nil, s.status \in DOMAIN process.sla, ~s.breached,
                 Budget > lag, ~missed'
          PROVE  day' <= s.due[s.status]
      <3>1. /\ s.due[s.status] = s.since + Budget - lag /\ day <= s.due[s.status]
            /\ fired[s.status] # Nil => fired[s.status] <= s.since
        BY <1>3, <2>1, <2>4 DEF Timely
      <3>2. CASE day = s.due[s.status]
        <4>1. fired[s.status] # day
          BY <2>2, <2>4, <3>1, <3>2, Clock DEF TimeInv
        <4>2. PICK e \in machine : e = Over(process, s.status)
          BY <2>4, MachineParts, Zenon DEF TimeInv, TypeInv, Compiled
        <4>3. e.by = "breach" /\ e.from = s.status
          BY <4>2 DEF Over
        <4>4. DueNow(e)
          BY <1>2, <3>2, <4>1, <4>3 DEF DueNow
        <4> QED
          BY <2>1, <2>4, <4>4
      <3> QED
        BY <2>1, <2>2, <2>4, <3>1, <3>2
    <2>5. ~missed' => ~missed
      BY <2>1
    <2>6. Timely(s)'
      BY <1>3, <2>1, <2>2, <2>4, <2>5 DEF Timely
    <2>7. Timely(saved)' /\ Timely(rec)'
      BY <2>1, <2>6 DEF Timely
    <2> QED
      BY <1>1, <2>3, <2>7 DEF TimeInv
  <1> QED
    BY <1>5, <1>6, <1>7, <1>8, <1>9, <1>10, <1>11, <1>12 DEF Next

----------------------------------------------------------------------------
(* The process as declared. *)

\* A request under way has left the committed state by a declared transition and
\* passed along automatic steps; the next one is about to fire, or none can.
OnItsWay ==
    open =>
        /\ \E t \in process.transitions :
              /\ t[1] = saved.status /\ Declared!May(process, evidence, t[2])
              /\ rec.status \in Declared!Passed(process, evidence, t[2])
        /\ \/ next = {f \in machine : f.by = "auto" /\ f.from = rec.status}
           \/ next = {} /\ Declared!Rests(process, evidence, rec.status)

PathInv == TypeInv /\ OnItsWay

\* A record lands on the state it lands on, and passes on by each automatic step.
LEMMA PassesOn ==
  ASSUME NEW p \in Declared!Declaration, NEW e, NEW s \in States
  PROVE  /\ s \in Declared!Passed(p, e, s)
         /\ \A x \in Declared!Passed(p, e, s), y \in States :
               <<x, y>> \in p.auto /\ Declared!May(p, e, y) => y \in Declared!Passed(p, e, s)
  BY DEF Declared!Passed

\* What an event triggers are the automatic events of the state it sets.
LEMMA TriggersAll ==
  ASSUME TypeInv, NEW e \in machine, e.by # "breach"
  PROVE  Triggered(e) = {f \in machine : f.by = "auto" /\ f.from = e.to}
  <1>1. e.triggers <=> \E a \in process.auto : a[1] = e.to
    BY EventParts DEF TypeInv, Compiled
  <1>2. \A f \in machine : f.by = "auto" => <<f.from, f.to>> \in process.auto
    BY EventParts DEF TypeInv, Compiled
  <1>3. \A f \in machine : f.by = "auto" /\ f.from = e.to => e.triggers
    BY <1>1, <1>2
  <1> QED
    BY <1>3, Zenon DEF Triggered

\* The guard of an event is the declaration's.
LEMMA AllowedMay ==
  ASSUME NEW e, NEW r
  PROVE  Allowed(e, r) <=> e.from = r.status /\ Declared!May(process, evidence, e.to)
  BY DEF Allowed, Declared!May

\* Where no automatic event is left a record rests.
LEMMA NothingLeft ==
  ASSUME TypeInv, NEW s, {f \in machine : f.by = "auto" /\ f.from = s} = {}
  PROVE  Declared!Rests(process, evidence, s)
  <1>1. SUFFICES ASSUME NEW a \in process.auto, a[1] = s PROVE FALSE
    BY DEF Declared!Rests
  <1>2. Edge(process, "auto", a) \in machine
    BY MachineParts, Zenon DEF TypeInv, Compiled
  <1>3. Edge(process, "auto", a).by = "auto" /\ Edge(process, "auto", a).from = s
    BY <1>1 DEF Edge
  <1> QED
    BY <1>2, <1>3

\* Where the only automatic event is refused a record rests.
LEMMA RefusedRests ==
  ASSUME TypeInv, NEW e \in machine, e.by = "auto",
         ~Declared!May(process, evidence, e.to)
  PROVE  Declared!Rests(process, evidence, e.from)
  <1>1. <<e.from, e.to>> \in process.auto
    BY EventParts DEF TypeInv, Compiled
  <1>2. \A a \in process.auto : a[1] = e.from => a = <<e.from, e.to>>
    BY <1>1 DEF TypeInv, Compiled, Accepted, Unambiguous
  <1>3. \A a \in process.auto : a[1] = e.from => a[2] = e.to
    BY <1>2
  <1> QED
    BY <1>3 DEF Declared!Rests

\* Every step keeps a request on its way and is a step of the declared process.
LEMMA StepPath ==
  ASSUME PathInv, [Next]_vars
  PROVE  PathInv' /\ [Declared!Next]_<<process, saved.status, evidence>>
  <1>1. TypeInv'
    BY StepTypes DEF PathInv
  <1>2. CASE UNCHANGED vars
    <2>1. OnItsWay'
      BY <1>2 DEF vars, PathInv, OnItsWay, Declared!May, Declared!Passed, Declared!Rests
    <2> QED
      BY <1>1, <1>2, <2>1 DEF vars, PathInv
  <1>3. ASSUME NEW e \in machine, Trigger(e)
        PROVE  PathInv' /\ [Declared!Next]_<<process, saved.status, evidence>>
    <2>1. /\ UNCHANGED <<process, machine, saved, evidence>>
          /\ e.by = "person" /\ Allowed(e, saved) /\ rec' = Applied(e, saved)
          /\ next' = Triggered(e)
      BY <1>3 DEF Trigger
    <2>2. <<e.from, e.to>> \in process.transitions /\ process \in Declared!Declaration
      BY <2>1, EventParts DEF PathInv, TypeInv, Compiled
    <2>3. e.to \in States /\ rec'.status = e.to
      BY <2>1, <2>2, DeclarationParts, AppliedTyped DEF PathInv, TypeInv, TypeOK
    <2>4. PICK t \in process.transitions : t = <<e.from, e.to>>
      BY <2>2
    <2>5. /\ t[1] = saved.status /\ Declared!May(process, evidence, t[2])
          /\ rec'.status \in Declared!Passed(process, evidence, t[2])
      BY <2>1, <2>2, <2>3, <2>4, AllowedMay, PassesOn
    <2>6. next' = {f \in machine : f.by = "auto" /\ f.from = rec'.status}
      BY <2>1, <2>3, TriggersAll DEF PathInv
    <2>7. OnItsWay'
      BY <2>1, <2>5, <2>6 DEF OnItsWay, Declared!May, Declared!Passed
    <2> QED
      BY <1>1, <2>1, <2>7 DEF PathInv
  <1>4. ASSUME NEW e \in machine, TriggerChained(e)
        PROVE  PathInv' /\ [Declared!Next]_<<process, saved.status, evidence>>
    <2>1. /\ UNCHANGED <<process, machine, saved, evidence, open>>
          /\ e \in next /\ open /\ e.by = "auto"
      BY <1>4 DEF TriggerChained, PathInv, TypeInv, Compiled
    <2>2. /\ <<e.from, e.to>> \in process.auto /\ process \in Declared!Declaration
          /\ e.from = rec.status
      BY <2>1, EventParts DEF PathInv, TypeInv, Compiled, OnItsWay
    <2>3. PICK t \in process.transitions :
            /\ t[1] = saved.status /\ Declared!May(process, evidence, t[2])
            /\ rec.status \in Declared!Passed(process, evidence, t[2])
      BY <2>1 DEF PathInv, OnItsWay
    <2>4. t[2] \in States /\ e.to \in States
      BY <2>2, DeclarationParts
    <2>5. CASE Allowed(e, rec)
      <3>1. rec' = Applied(e, rec) /\ next' = Triggered(e)
        BY <1>4, <2>5 DEF TriggerChained
      <3>2. rec'.status = e.to
        BY <3>1, AppliedTyped DEF PathInv, TypeInv, TypeOK
      <3>3. rec'.status \in Declared!Passed(process, evidence, t[2])
        BY <2>2, <2>3, <2>4, <2>5, <3>2, AllowedMay, PassesOn
      <3>4. next' = {f \in machine : f.by = "auto" /\ f.from = rec'.status}
        BY <2>1, <3>1, <3>2, TriggersAll DEF PathInv
      <3>5. OnItsWay'
        BY <2>1, <2>3, <3>3, <3>4 DEF OnItsWay, Declared!May, Declared!Passed
      <3> QED
        BY <1>1, <2>1, <3>5 DEF PathInv
    <2>6. CASE ~Allowed(e, rec)
      <3>1. rec' = rec /\ next' = {}
        BY <1>4, <2>6 DEF TriggerChained
      <3>2. Declared!Rests(process, evidence, rec.status)
        BY <2>1, <2>2, <2>6, AllowedMay, RefusedRests DEF PathInv
      <3>3. OnItsWay'
        BY <2>1, <2>3, <3>1, <3>2
           DEF OnItsWay, Declared!May, Declared!Passed, Declared!Rests
      <3> QED
        BY <1>1, <2>1, <3>3 DEF PathInv
    <2> QED
      BY <2>5, <2>6
  <1>5. CASE Commit
    <2>1. /\ open /\ next = {} /\ saved' = rec /\ ~open' /\ UNCHANGED <<process, evidence>>
      BY <1>5 DEF Commit, PathInv, TypeInv, TypeOK
    <2>2. PICK t \in process.transitions :
            /\ t[1] = saved.status /\ Declared!May(process, evidence, t[2])
            /\ rec.status \in Declared!Passed(process, evidence, t[2])
      BY <2>1 DEF PathInv, OnItsWay
    <2>3. Declared!Rests(process, evidence, rec.status)
      BY <2>1, NothingLeft DEF PathInv, OnItsWay
    <2>4. Declared!Transition
      BY <2>1, <2>2, <2>3 DEF Declared!Transition
    <2> QED
      BY <1>1, <2>1, <2>4 DEF PathInv, OnItsWay, Declared!Next
  <1>6. ASSUME NEW e \in machine, Breach(e)
        PROVE  PathInv' /\ [Declared!Next]_<<process, saved.status, evidence>>
    <2>1. /\ ~open /\ ~open' /\ UNCHANGED <<process, evidence>>
          /\ e.by = "breach" /\ Allowed(e, saved)
          /\ saved' = [Applied(e, saved) EXCEPT !.breached = TRUE]
      BY <1>6 DEF Breach, DueNow
    <2>2. saved'.status = e.to
      <3>1. Applied(e, saved) \in Record /\ Applied(e, saved).status = e.to
        BY AppliedTyped DEF PathInv, TypeInv, TypeOK
      <3> QED
        BY <2>1, <3>1 DEF Record
    <2>3. /\ e.from \in DOMAIN process.sla
          /\ e.to = IF process.sla[e.from] = Nil THEN e.from ELSE process.sla[e.from]
      BY <2>1, EventParts DEF PathInv, TypeInv, Compiled
    <2>4. e.from = saved.status /\ Declared!May(process, evidence, e.to)
      BY <2>1, AllowedMay
    <2>5. CASE process.sla[e.from] = Nil
      BY <1>1, <2>1, <2>2, <2>3, <2>4, <2>5 DEF PathInv, OnItsWay
    <2>6. CASE process.sla[e.from] # Nil
      <3>1. Declared!Escalate
        BY <2>1, <2>2, <2>3, <2>4, <2>6 DEF Declared!Escalate
      <3> QED
        BY <1>1, <2>1, <3>1 DEF PathInv, OnItsWay, Declared!Next
    <2> QED
      BY <2>5, <2>6
  <1>7. CASE Abort
    BY <1>1, <1>7 DEF Abort, PathInv, OnItsWay
  <1>8. CASE Evidence
    BY <1>1, <1>8 DEF Evidence, PathInv, OnItsWay, Declared!Next, Declared!Evidence
  <1>9. CASE Midnight
    BY <1>1, <1>9 DEF Midnight, PathInv, OnItsWay
  <1> QED
    BY <1>2, <1>3, <1>4, <1>5, <1>6, <1>7, <1>8, <1>9 DEF Next

----------------------------------------------------------------------------
(* No dead states. *)

\* What can fire once the fired events have is one of them.
LEMMA FiredClosed == ASSUME NEW f \in machine, Firable(f, Fired) PROVE f \in Fired
  <1>1. ASSUME NEW F \in SUBSET machine, \A g \in machine : Firable(g, F) => g \in F
        PROVE  f \in F
    <2>1. Fired \subseteq F
      BY <1>1 DEF Fired
    <2>2. Firable(f, F)
      BY <2>1 DEF Firable
    <2> QED
      BY <1>1, <2>2
  <1> QED
    BY <1>1 DEF Fired

\* Along an edge of a straight process the machine reaches what it leads to.
LEMMA RunFollowsEdges ==
  ASSUME TypeInv, Straight(process), NEW g \in Edges(process), g[1] \in Run
  PROVE  g[2] \in Run
  <1>1. /\ process \in Declared!Declaration /\ machine = Compile(process)
        /\ Nil \notin States
    BY CompilerAssumption DEF TypeInv, Compiled
  <1>2. /\ \A s \in DOMAIN process.sla : s # First /\ process.sla[s] \notin DOMAIN process.sla
        /\ \A a \in process.auto :
              /\ a[1] # First /\ a[1] \notin DOMAIN process.sla
              /\ \A s \in DOMAIN process.sla : a[1] # process.sla[s]
              /\ \A t \in process.transitions : t[1] # a[1]
    BY DEF Straight
  <1>3. g[1] # First => \E f \in Fired : f \in machine /\ f.to = g[1]
    BY DEF Run, Fired
  <1>4. ASSUME NEW f \in machine, f \in Fired PROVE f.to \in Run
    BY <1>4 DEF Run
  <1>5. CASE g \in process.transitions
    <2>1. PICK e \in machine : e = Edge(process, "person", g)
      BY <1>1, <1>5, MachineParts, Zenon
    <2>2. e.by = "person" /\ e.from = g[1] /\ e.to = g[2]
      BY <2>1 DEF Edge
    <2>3. ASSUME NEW f \in machine, f.to = g[1] PROVE ~f.triggers
      <3>1. ~\E a \in process.auto : a[1] = f.to
        BY <1>2, <1>5, <2>3
      <3> QED
        BY <1>1, <3>1, EventParts
    <2>4. Firable(e, Fired)
      BY <1>3, <2>2, <2>3 DEF Firable
    <2> QED
      BY <1>4, <2>2, <2>4, FiredClosed
  <1>6. CASE g \in process.auto
    <2>1. PICK e \in machine : e = Edge(process, "auto", g)
      BY <1>1, <1>6, MachineParts, Zenon
    <2>2. e.by = "auto" /\ e.from = g[1] /\ e.to = g[2]
      BY <2>1 DEF Edge
    <2>3. ASSUME NEW f \in machine, f.to = g[1] PROVE f.triggers
      <3>1. f.by # "breach"
        BY <1>1, <1>2, <1>6, <2>3, EventParts
      <3> QED
        BY <1>1, <1>6, <2>3, <3>1, EventParts
    <2>4. Firable(e, Fired)
      BY <1>2, <1>3, <1>6, <2>2, <2>3 DEF Firable
    <2> QED
      BY <1>4, <2>2, <2>4, FiredClosed
  <1>7. CASE \E s \in {q \in DOMAIN process.sla : process.sla[q] # Nil} :
                g = <<s, process.sla[s]>>
    <2>1. PICK s \in DOMAIN process.sla : process.sla[s] # Nil /\ g = <<s, process.sla[s]>>
      BY <1>7
    <2>2. PICK e \in machine : e = Over(process, s)
      BY <1>1, MachineParts, Zenon
    <2>3. e.by = "breach" /\ e.from = g[1] /\ e.to = g[2] /\ g[1] = s
      BY <2>1, <2>2 DEF Over
    <2>4. ASSUME NEW f \in machine, f.to = s PROVE f.stamps /\ ~f.triggers
      <3>1. f.by # "breach"
        BY <1>1, <1>2, <2>1, <2>4, EventParts
      <3> QED
        BY <1>1, <1>2, <2>4, <3>1, EventParts
    <2>5. Firable(e, Fired)
      BY <1>2, <1>3, <2>3, <2>4 DEF Firable
    <2> QED
      BY <1>4, <2>3, <2>5, FiredClosed
  <1> QED
    BY <1>5, <1>6, <1>7 DEF Edges

\* An accepted straight process has no state its machine does not reach.
LEMMA StraightReached == TypeInv => EveryStateReached
  <1> SUFFICES ASSUME TypeInv, Straight(process), NEW s \in States PROVE s \in Run
    BY DEF EveryStateReached
  <1>1. Run \subseteq States
    BY CompilerAssumption DEF Run, Fired, TypeInv, TypeOK, Event
  <1>2. First \in Run
    BY DEF Run
  <1>3. s \in Closure({First}, Edges(process))
    BY DEF TypeInv, Compiled, Accepted, AllReached
  <1> QED
    BY <1>1, <1>2, <1>3, RunFollowsEdges DEF Closure

----------------------------------------------------------------------------
\* The variables have their types.
THEOREM TypeCorrect == Spec => []TypeOK
  <1>1. TypeInv => TypeOK
    BY DEF TypeInv
  <1> QED
    BY <1>1, InitTypes, StepTypes, PTL DEF Spec

\* The events a process compiles to move a record as the process declares and no
\* other way, through every automatic step.
THEOREM DeclarationFollowed == Spec => DeclaredProcess
  <1>1. Init => PathInv /\ Declared!Init
    BY InitTypes DEF Init, PathInv, OnItsWay, Declared!Init, TypeInv, Compiled
  <1>2. PathInv /\ [Next]_vars =>
            PathInv' /\ [Declared!Next]_<<process, saved.status, evidence>>
    BY StepPath
  <1> QED
    BY <1>1, <1>2, PTL DEF Spec, DeclaredProcess, Declared!Spec

\* A record left in a state with a time budget is breached by the time the budget
\* is over, if no day ended on a breach left undone.
THEOREM BudgetsAreBreached == Spec => []BreachedOnTime
  <1>1. TimeInv => BreachedOnTime
    <2> SUFFICES ASSUME TimeInv, saved.since # Nil, saved.status \in DOMAIN process.sla,
                        Budget > lag, ~missed, day > saved.since + Budget, ~saved.breached
                 PROVE  FALSE
      BY DEF BreachedOnTime
    <2>1. day <= saved.since + Budget - lag
      BY DEF TimeInv, Timely
    <2>2. day \in Nat /\ lag \in 0..1 /\ Budget \in Nat /\ saved.since \in Nat
      <3>1. TypeInv
        BY DEF TimeInv
      <3>2. saved.since \in Nat
        BY <3>1 DEF TypeInv, TypeOK, Record
      <3> QED
        BY <3>1, <3>2, Clock
    <2> QED
      BY <2>1, <2>2
  <1> QED
    BY <1>1, InitTime, StepTime, PTL DEF Spec

\* The machine of an accepted straight process reaches every state declared.
THEOREM NoDeadStates == Spec => []EveryStateReached
  BY InitTypes, StepTypes, StraightReached, PTL DEF Spec
=============================================================================
