---- MODULE Connection ----
(***************************************************************************)
(* The WhatsApp connection of each business (settings/) and the state of a *)
(* template in the account it is connected to (whatsapp/, webhook/).  A    *)
(* template belongs to the WABA, not to the business: connecting creates   *)
(* it there, Meta reviews it when it likes and says so by webhook, and a   *)
(* job creates what is missing and asks again about what is pending.  Each *)
(* template is on its own, so that one stands here for all.  A number, its *)
(* WABA and their token travel together.                                   *)
(***************************************************************************)
EXTENDS Integers, Sequences, FiniteSets

CONSTANTS
  Businesses,  \* 1 .. n, by age
  Waba,        \* [number -> the account it is in]
  Connected0,  \* the numbers they may be connected with when the template is new
  Handlers,    \* requests and webhooks in course
  Batch,       \* PROVISION_BATCH
  MaxStarts,   \* bound: requests ever started
  MaxFails,    \* bound: calls to Graph that fail
  None

ConnectionAssumption ==
  Batch \in Nat \ {0} /\ None \notin DOMAIN Waba /\ Connected0 \subseteq [Businesses -> DOMAIN Waba \cup {None}]

VARIABLES
  conn,        \* [Businesses -> the number it is connected with]
  rows,        \* [Businesses -> its row of whatsapp_templates]
  meta,        \* [account -> the status of the template at Meta]
  mail,        \* the decisions of Meta, each delivered any number of times
  hs,          \* [Handlers -> request]
  job,         \* the job: what it has still to do, as it was read
  strays,      \* the businesses that nobody freed from the row of an account they left
  starts, fails

vars == <<conn, rows, meta, mail, hs, job, strays, starts, fails>>

Numbers == DOMAIN Waba
Wabas == {Waba[n] : n \in Numbers}
Connected(b) == conn[b] # None
WabaOf(b) == IF Connected(b) THEN Waba[conn[b]] ELSE None

\* from: the account the row was last read from.  old: written PROVISION_RETRY_HOURS ago.
NoRow == [st |-> "absent", from |-> None, old |-> FALSE]
Row(st, w) == [st |-> st, from |-> w, old |-> FALSE]
Idle == [pc |-> "idle", b |-> 0, n |-> None, w |-> None, st |-> "absent", then |-> "idle"]
Asleep == [pc |-> "asleep", todo |-> <<>>, b |-> 0, st |-> "absent", w |-> None]

Init ==
  /\ conn \in Connected0 /\ rows = [b \in Businesses |-> NoRow]
  /\ meta = [w \in Wabas |-> "none"] /\ mail = {}
  /\ hs = [h \in Handlers |-> Idle] /\ job = Asleep /\ strays = {}
  /\ starts = 0 /\ fails = 0

\* A row may be written by who read the account before the business left it.
StraysAfter(b, w) == IF w = WabaOf(b) THEN strays \ {b} ELSE strays \cup {b}

Goto(h, m) == hs' = [hs EXCEPT ![h] = m]
Done(h) == Goto(h, Idle)
Start(h) == hs[h].pc = "idle" /\ starts < MaxStarts /\ starts' = starts + 1

-----------------------------------------------------------------------------
(* Meta *)

TemplateStatus(s) == CASE s = "REJECTED" -> "UNAVAILABLE" [] OTHER -> s

\* provisionTemplate asks whether it is there before it creates it, and does not throw: a
\* call that fails, whatever became of it, is a template that was not created.
Provision(w, st) ==
  LET created == [meta EXCEPT ![w] = IF @ = "none" THEN "PENDING" ELSE @] IN
  \/ meta' = created /\ st = TemplateStatus(created[w]) /\ UNCHANGED fails
  \/ meta' \in {meta, created} /\ st = "NOT_CREATED" /\ fails < MaxFails /\ fails' = fails + 1

Review(w) ==
  /\ meta[w] = "PENDING"
  /\ \E s \in {"APPROVED", "REJECTED"} :
       meta' = [meta EXCEPT ![w] = s] /\ mail' = mail \cup {[w |-> w, st |-> TemplateStatus(s)]}
  /\ UNCHANGED <<conn, rows, hs, job, strays, starts, fails>>

-----------------------------------------------------------------------------
(* Settings *)

\* The code is exchanged and the number looked up before anything is written.
Signup(h, b, n) ==
  /\ Start(h)
  /\ Goto(h, [Idle EXCEPT !.pc = "commit", !.b = b, !.n = n, !.w = Waba[n]])
  /\ UNCHANGED <<conn, rows, meta, mail, job, strays, fails>>

Taken(b, n) == \E c \in Businesses \ {b} : conn[c] = n \/ WabaOf(c) = Waba[n]
InIndex(b, n) == \E c \in Businesses \ {b} : conn[c] = n

\* One transaction over the rows it reads; another WABA lets go of the templates of the last one.
Commit(h) ==
  LET m == hs[h] IN
  /\ m.pc = "commit"
  /\ IF Taken(m.b, m.n) \/ InIndex(m.b, m.n)
     THEN UNCHANGED conn /\ Done(h)
     ELSE /\ conn' = [conn EXCEPT ![m.b] = m.n]
          /\ Goto(h, IF Connected(m.b) /\ WabaOf(m.b) # m.w
                     THEN [m EXCEPT !.pc = "release", !.then = "provision"] ELSE [m EXCEPT !.pc = "provision"])
  /\ UNCHANGED <<rows, meta, mail, job, strays, starts, fails>>

\* deleteByTenant, outside the transaction.
Release(h) ==
  LET m == hs[h] IN
  /\ m.pc = "release"
  /\ rows' = [rows EXCEPT ![m.b] = NoRow] /\ strays' = strays \ {m.b}
  /\ IF m.then = "idle" THEN Done(h) ELSE Goto(h, [m EXCEPT !.pc = m.then])
  /\ UNCHANGED <<conn, meta, mail, job, starts, fails>>

\* A template that could not be created leaves no row.
ProvisionTemplates(h) ==
  LET m == hs[h] IN
  /\ m.pc = "provision"
  /\ \E st \in {"PENDING", "APPROVED", "UNAVAILABLE", "NOT_CREATED"} :
       /\ Provision(m.w, st)
       /\ IF st = "NOT_CREATED" THEN Done(h) ELSE Goto(h, [m EXCEPT !.pc = "save", !.st = st])
  /\ UNCHANGED <<conn, rows, mail, job, strays, starts>>

Save(h) ==
  LET m == hs[h] IN
  /\ m.pc = "save"
  /\ rows' = [rows EXCEPT ![m.b] = Row(m.st, m.w)] /\ strays' = StraysAfter(m.b, m.w)
  /\ Done(h)
  /\ UNCHANGED <<conn, meta, mail, job, starts, fails>>

Disconnect(h, b) ==
  /\ Start(h)
  /\ conn' = [conn EXCEPT ![b] = None]
  /\ Goto(h, [Idle EXCEPT !.pc = "release", !.b = b])
  /\ UNCHANGED <<rows, meta, mail, job, strays, fails>>

\* updateSettings by hand: what does not come is taken from the row it read at the start.
\* Nothing is done to the templates.
Settings(h, b, n) ==
  /\ Start(h)
  /\ Goto(h, [Idle EXCEPT !.pc = "manual", !.b = b, !.n = IF n # None THEN n ELSE conn[b]])
  /\ UNCHANGED <<conn, rows, meta, mail, job, strays, fails>>

UpdateConnection(h) ==
  LET m == hs[h] IN
  /\ m.pc = "manual"
  /\ IF m.n = None \/ InIndex(m.b, m.n)
     THEN UNCHANGED <<conn, strays>>
     ELSE /\ conn' = [conn EXCEPT ![m.b] = m.n]
          /\ strays' = IF rows[m.b].from \in {None, Waba[m.n]} THEN strays ELSE strays \cup {m.b}
  /\ Done(h)
  /\ UNCHANGED <<rows, meta, mail, job, starts, fails>>

\* The webhook finds the business by its WABA and writes afterwards.
TemplateUpdate(h, d, b) ==
  /\ Start(h)
  /\ WabaOf(b) = d.w
  /\ Goto(h, [Idle EXCEPT !.pc = "save", !.b = b, !.w = d.w, !.st = d.st])
  /\ UNCHANGED <<conn, rows, meta, mail, job, strays, fails>>

\* A request that fails, or a process that stops, where it is.
Crash(h) ==
  /\ hs[h].pc # "idle" /\ Done(h)
  /\ strays' = IF hs[h].pc = "release" THEN strays \cup {hs[h].b} ELSE strays
  /\ UNCHANGED <<conn, rows, meta, mail, job, starts, fails>>

-----------------------------------------------------------------------------
(* The job *)

MissingOnlyAbsent(b) == rows[b].st = "absent"   \* mutant: a failure is never tried again
Missing(b) == rows[b].st = "absent" \/ (rows[b].st = "NOT_CREATED" /\ rows[b].old)

InOrder(S) == [i \in 1 .. Cardinality(S) |-> CHOOSE b \in S : Cardinality({c \in S : c <= b}) = i]
Take(s) == SubSeq(s, 1, IF Len(s) < Batch THEN Len(s) ELSE Batch)
WithWaba(s) == [i \in DOMAIN s |-> [b |-> s[i], w |-> WabaOf(s[i])]]

FindConnectedMissing ==
  /\ job.pc = "asleep"
  /\ job' = [Asleep EXCEPT !.pc = "provision", !.todo = WithWaba(Take(InOrder({b \in Businesses : Connected(b) /\ Missing(b)})))]
  /\ UNCHANGED <<conn, rows, meta, mail, hs, strays, starts, fails>>

ProvisionMissing ==
  /\ job.pc = "provision" /\ job.todo # <<>>
  /\ \E st \in {"PENDING", "APPROVED", "UNAVAILABLE", "NOT_CREATED"} :
       /\ Provision(Head(job.todo).w, st)
       /\ job' = [job EXCEPT !.pc = "saveMissing", !.st = st, !.todo = Tail(@), !.b = Head(job.todo).b, !.w = Head(job.todo).w]
  /\ UNCHANGED <<conn, rows, mail, hs, strays, starts>>

FindPending ==
  /\ job.pc = "provision" /\ job.todo = <<>>
  /\ job' = [Asleep EXCEPT !.pc = "refresh", !.todo = WithWaba(InOrder({b \in Businesses : Connected(b) /\ rows[b].st = "PENDING"}))]
  /\ UNCHANGED <<conn, rows, meta, mail, hs, strays, starts, fails>>

\* What is not there, cannot be asked or has not changed is left as it was.
RefreshPending ==
  LET w == Head(job.todo).w
      rest == [job EXCEPT !.todo = Tail(@)]
  IN /\ job.pc = "refresh" /\ job.todo # <<>>
     /\ \/ /\ job' = IF meta[w] \in {"none", "PENDING"} THEN rest
                     ELSE [rest EXCEPT !.pc = "saveRefreshed", !.b = Head(job.todo).b, !.w = w, !.st = TemplateStatus(meta[w])]
           /\ UNCHANGED fails
        \/ fails < MaxFails /\ fails' = fails + 1 /\ job' = rest
     /\ UNCHANGED <<conn, rows, meta, mail, hs, strays, starts>>

\* The job keeps the failures too, and the one that is there already keeps its date.
SaveState ==
  /\ job.pc \in {"saveMissing", "saveRefreshed"}
  /\ rows' = IF job.st = "NOT_CREATED" /\ rows[job.b].st = job.st THEN rows
             ELSE [rows EXCEPT ![job.b] = Row(job.st, job.w)]
  /\ strays' = IF rows' = rows THEN strays ELSE StraysAfter(job.b, job.w)
  /\ job' = [job EXCEPT !.pc = IF job.pc = "saveMissing" THEN "provision" ELSE "refresh"]
  /\ UNCHANGED <<conn, meta, mail, hs, starts, fails>>

Rest ==
  /\ job.pc = "refresh" /\ job.todo = <<>> /\ job' = Asleep
  /\ UNCHANGED <<conn, rows, meta, mail, hs, strays, starts, fails>>

Age(b) ==
  /\ rows[b].st = "NOT_CREATED" /\ ~rows[b].old
  /\ rows' = [rows EXCEPT ![b].old = TRUE]
  /\ UNCHANGED <<conn, meta, mail, hs, job, strays, starts, fails>>

Job == FindConnectedMissing \/ ProvisionMissing \/ FindPending \/ RefreshPending \/ SaveState \/ Rest

Next ==
  \/ \E h \in Handlers :
       \/ \E b \in Businesses :
            \/ \E n \in Numbers : Signup(h, b, n)
            \/ \E n \in Numbers \cup {None} : Settings(h, b, n)
            \/ \E d \in mail : TemplateUpdate(h, d, b)
            \/ Connected(b) /\ Disconnect(h, b)
       \/ Commit(h) \/ Release(h) \/ ProvisionTemplates(h) \/ Save(h) \/ UpdateConnection(h) \/ Crash(h)
  \/ \E w \in Wabas : Review(w)
  \/ Job
  \/ \E b \in Businesses : Age(b)

Fairness ==
  /\ WF_vars(Job)
  /\ \A w \in Wabas : WF_vars(Review(w))
  /\ \A b \in Businesses : WF_vars(Age(b))

Spec == Init /\ [][Next]_vars /\ Fairness

-----------------------------------------------------------------------------

\* A template of an account cannot be sent from another (deleteByTenant).
Settled(b) == Connected(b) => rows[b].st \in {"APPROVED", "UNAVAILABLE"} /\ rows[b].from = WabaOf(b)
Stray(b) == b \in strays \/ \E h \in Handlers : hs[h].pc = "release" /\ hs[h].b = b

\* A connected business does not wait for ever for a template of its own account, even if no
\* webhook arrives, the process that connected it stopped or Graph failed for a while.  It
\* may do so in three cases only, where its row is still that of an account it left and
\* nobody looks at it again: it was moved to the new one by hand, the request that had to
\* delete the row stopped before doing so, or who had read the former account wrote late.
TemplatesSettle == \A b \in Businesses : []<>Settled(b) \/ <>[]Stray(b)
====
