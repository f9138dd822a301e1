----------------------------- MODULE ProbeStages -----------------------------
(***************************************************************************)
(* One probe of a node from the inside, and what its result looks like     *)
(* later: check_node_connect (name, TCP, TLS), verify_node_proxy (one of   *)
(* few proxy cores tries the same addresses), the part of _save_probe that *)
(* stores a result, and node_health, which decides what pages and API      *)
(* show.                                                                   *)
(*                                                                         *)
(* Time is counted in ticks, and a probe stores how many it has left, so   *)
(* that no clock grows. A step that waits has a deadline of its own and is *)
(* over when it is reached; a step that does not wait takes no time. A     *)
(* node has one probe at a time (NodeProbes).                              *)
(***************************************************************************)
EXTENDS Naturals, FiniteSets

CONSTANTS
  Nodes,
  Slots,         \* cores at once over all processes, 2
  Timeout,       \* of a probe, 8 seconds
  EntryTimeout,  \* of its entry check, 3 seconds
  MaxAddresses,  \* addresses a name resolves to
  Ttl,           \* PROBE_TTL_SECONDS
  NoEvidence     \* probe_result is empty and no old flag is set

ASSUME StageAssumption ==
  /\ Slots \in Nat /\ Ttl \in Nat \ {0}
  /\ Timeout \in Nat /\ EntryTimeout \in 1 .. Timeout
  /\ MaxAddresses \in Nat \ {0}

VARIABLES
  probe,       \* the probe of a node
  evidence,    \* nodes.probe_result
  age,         \* ticks since its checked_at, at most Ttl
  unfinished,  \* nodes.probe_error is not empty
  proof        \* history: ticks since a core got through with this node

vars == <<probe, evidence, age, unfinished, proof>>

\* probe_options and the protocols a core is started for: which stages the
\* node's configuration admits.
Kind == {k \in [tcp : BOOLEAN, tls : BOOLEAN, core : BOOLEAN] : k.tls => k.tcp}

Status == {"entry", "tls_error", "verified", "failed", "error", "unsupported"}

\* A stored result. Version 0 is a row of a release without results, 1 a
\* result whose access was not checked strictly; `open` is history: addresses
\* without a verdict.
Evidence == [status : Status \ {"error"}, version : 0 .. 2, staged : BOOLEAN,
             open : 0 .. MaxAddresses]

PC == {"idle", "resolve", "tcp", "tls", "slot", "core", "save"}
Probe == [pc : PC, kind : Kind, addresses : 0 .. MaxAddresses,
          todo : 0 .. MaxAddresses,   \* addresses not done in this round
          left : 0 .. Timeout,        \* to the probe's deadline
          entry : 0 .. EntryTimeout,  \* to the entry check's deadline
          step : 0 .. Timeout,        \* to the deadline of what it waits for
          attempted : BOOLEAN, connected : BOOLEAN, refused : BOOLEAN,
          status : Status,
          spent : Nat,                \* history: ticks since the start
          waited : 0 .. Ttl]          \* since checked_at

Idle == [pc |-> "idle", kind |-> [tcp |-> FALSE, tls |-> FALSE, core |-> FALSE],
         addresses |-> 0, todo |-> 0, left |-> 0, entry |-> 0, step |-> 0,
         attempted |-> FALSE, connected |-> FALSE, refused |-> FALSE,
         status |-> "error", spent |-> 0, waited |-> 0]

\* What releases before this one left in the database.
Old == {[status |-> "entry", version |-> 0, staged |-> FALSE, open |-> 0]}
       \cup {[status |-> "verified", version |-> 1, staged |-> f, open |-> 0] : f \in BOOLEAN}

Init ==
  /\ probe = [n \in Nodes |-> Idle]
  /\ evidence \in [Nodes -> Old \cup {NoEvidence}]
  /\ age = [n \in Nodes |-> 0]
  /\ unfinished = [n \in Nodes |-> FALSE]
  /\ proof = [n \in Nodes |-> Ttl]

-----------------------------------------------------------------------------
(* Entry check.                                                            *)

\* Mutant of Share: an address may use all the time there is.
ShareAll(time, n) == time

\* The budget of the next of n addresses.
Share(time, n) == time \div n

\* Only what is still read is kept.
Finished(r, s) == [Idle EXCEPT !.pc = "save", !.status = s, !.todo = r.todo]

\* The entry check ends; a node whose proxy can be verified goes on with the
\* same addresses and what is left of its time, whatever the check found.
Entered(r, s) ==
  IF r.kind.core THEN [Idle EXCEPT !.pc = "slot", !.todo = r.addresses,
                                   !.left = r.left, !.spent = r.spent]
                 ELSE Finished(r, s)

\* All addresses are done, or the time is.
Verdict(r) ==
  IF ~r.attempted THEN "error"
  ELSE IF r.refused THEN "tls_error"
  ELSE IF r.connected THEN "error" ELSE "failed"

NextEntry(r) ==
  IF r.todo = 0 \/ r.entry = 0 THEN Entered(r, Verdict(r))
  ELSE [r EXCEPT !.pc = "tcp", !.step = Share(r.entry, r.todo), !.attempted = TRUE]

Done(r) == [r EXCEPT !.todo = @ - 1]

Move(n, r) ==
  /\ probe' = [probe EXCEPT ![n] = r]
  /\ UNCHANGED <<evidence, age, unfinished, proof>>

\* _acquire_probe has marked the row as pending.
Begin(n, k) ==
  /\ probe[n].pc = "idle"
  /\ probe' = [probe EXCEPT ![n] =
                 [Idle EXCEPT !.pc = "resolve", !.kind = k, !.left = Timeout,
                              !.entry = EntryTimeout, !.step = EntryTimeout]]
  /\ unfinished' = [unfinished EXCEPT ![n] = TRUE]
  /\ UNCHANGED <<evidence, age, proof>>

\* The name does not resolve in time, or not to permitted addresses.
ResolveFails(n) ==
  /\ probe[n].pc = "resolve"
  /\ Move(n, Finished(probe[n], "failed"))

Resolve(n, k) ==
  LET r == [probe[n] EXCEPT !.addresses = k, !.todo = k]
  IN  /\ probe[n].pc = "resolve"
      /\ Move(n, IF r.kind.tcp THEN NextEntry(r) ELSE Entered(r, "unsupported"))

\* Refused, unreachable or out of time.
TcpFails(n) ==
  /\ probe[n].pc = "tcp"
  /\ Move(n, NextEntry(Done(probe[n])))

TcpConnects(n) ==
  LET r == [probe[n] EXCEPT !.connected = TRUE]
  IN  /\ r.pc = "tcp"
      /\ Move(n, IF ~r.kind.tls THEN Entered(r, "entry")
                 ELSE IF r.step = 0 THEN NextEntry(Done(r))
                 ELSE [r EXCEPT !.pc = "tls"])

TlsFails(n) ==
  /\ probe[n].pc = "tls"
  /\ Move(n, NextEntry([Done(probe[n]) EXCEPT !.refused = TRUE]))

TlsSucceeds(n) ==
  /\ probe[n].pc = "tls"
  /\ Move(n, Entered(probe[n], "entry"))

-----------------------------------------------------------------------------
(* Proxy verification.                                                     *)

Free == Cardinality({n \in Nodes : probe[n].pc = "core"}) < Slots

\* Mutant of NextCore: every address gets the whole time of a probe.
NextCoreAnew(r) ==
  IF r.left = 0 THEN Finished(r, "error")
  ELSE [r EXCEPT !.pc = "core", !.step = Share(Timeout, r.todo)]

NextCore(r) ==
  IF r.left = 0 THEN Finished(r, "error")
  ELSE [r EXCEPT !.pc = "core", !.step = Share(r.left, r.todo)]

\* core_slot: a probe that finds no slot does not wait for one.
TakeSlot(n) ==
  LET r == probe[n]
  IN  /\ r.pc = "slot"
      /\ Move(n, IF Free THEN NextCore(r) ELSE Finished(r, "error"))

\* The core completed a request through the node: ProxyAccessFailed.
CoreRefuses(n) ==
  LET r == Done(probe[n])
  IN  /\ r.pc = "core"
      /\ Move(n, IF r.todo = 0 THEN Finished(r, "failed") ELSE NextCore(r))

\* No core, no answer in time, or one without the evidence.
CoreBreaks(n) ==
  /\ probe[n].pc = "core"
  /\ Move(n, Finished(probe[n], "error"))

CoreProves(n) ==
  /\ probe[n].pc = "core"
  /\ probe' = [probe EXCEPT ![n] = Finished(@, "verified")]
  /\ proof' = [proof EXCEPT ![n] = 0]
  /\ UNCHANGED <<evidence, age, unfinished>>

-----------------------------------------------------------------------------
(* Storing and showing.                                                    *)

\* Mutant of CheckedAge: the result is as old as its row.
CheckedAgeStored(r) == 0

\* The result is as old as its checked_at: it may have waited for the others
\* of its wave.
CheckedAge(r) == r.waited

\* _save_probe: an error leaves the evidence and the mark.
Save(n) ==
  LET r == probe[n]
  IN  /\ r.pc = "save"
      /\ IF r.status = "error"
           THEN UNCHANGED <<evidence, age, unfinished>>
           ELSE /\ evidence' = [evidence EXCEPT ![n] =
                     [status |-> r.status, staged |-> r.status = "verified",
                      version |-> IF r.status = "verified" THEN 2 ELSE 1,
                      open |-> IF r.status \in {"failed", "tls_error"} THEN r.todo ELSE 0]]
                /\ age' = [age EXCEPT ![n] = CheckedAge(r)]
                /\ unfinished' = [unfinished EXCEPT ![n] = FALSE]
      /\ probe' = [probe EXCEPT ![n] = Idle]
      /\ UNCHANGED proof

\* The process dies; the kernel frees its slot.
Crash(n) ==
  /\ probe[n].pc # "idle"
  /\ Move(n, Idle)

Waits(n) == probe[n].pc \in {"resolve", "tcp", "tls", "core"}

Minus1(k) == IF k = 0 THEN 0 ELSE k - 1
Older(k) == IF k < Ttl THEN k + 1 ELSE Ttl

Ticked(r) ==
  CASE r.pc = "idle" -> r
    [] r.pc = "save" -> [r EXCEPT !.waited = Older(@)]
    [] OTHER -> [r EXCEPT !.left = Minus1(@), !.entry = Minus1(@),
                          !.step = @ - 1, !.spent = @ + 1]

\* No deadline is passed; a result may wait for the others of its wave.
Tick ==
  /\ \A n \in Nodes : probe[n].pc # "slot" /\ (Waits(n) => probe[n].step > 0)
  /\ probe' = [n \in Nodes |-> Ticked(probe[n])]
  /\ age' = [n \in Nodes |-> Older(age[n])]
  /\ proof' = [n \in Nodes |-> Older(proof[n])]
  /\ UNCHANGED <<evidence, unfinished>>

\* Neither an old row, nor a proof that was not strict, nor out of date.
Current(n) ==
  /\ evidence[n].version # 0
  /\ evidence[n].status = "verified" /\ evidence[n].staged => evidence[n].version = 2
  /\ age[n] < Ttl

\* node_health. A bare "verified" is worth an entry check.
Shown(n) ==
  IF probe[n].pc # "idle" THEN "checking"
  ELSE IF unfinished[n] THEN "error"
  ELSE IF evidence[n] = NoEvidence THEN "unknown"
  ELSE IF ~Current(n) THEN "expired"
  ELSE IF evidence[n].status = "verified" /\ ~evidence[n].staged THEN "entry"
  ELSE evidence[n].status

-----------------------------------------------------------------------------
Next ==
  \/ Tick
  \/ \E n \in Nodes :
       \/ \E k \in Kind : Begin(n, k)
       \/ \E k \in 1 .. MaxAddresses : Resolve(n, k)
       \/ ResolveFails(n) \/ TcpFails(n) \/ TcpConnects(n) \/ TlsFails(n)
       \/ TlsSucceeds(n) \/ TakeSlot(n) \/ CoreRefuses(n) \/ CoreBreaks(n)
       \/ CoreProves(n) \/ Save(n) \/ Crash(n)

Spec == Init /\ [][Next]_vars

-----------------------------------------------------------------------------
(* Properties.                                                             *)

\* A node is shown as verified only while it is less than the lifetime of a
\* result ago that a core got through with its credentials, however long the
\* result waited to be stored and whatever earlier releases or unfinished
\* checks left in the row (node_health, verify_node_proxy; docs/API.md:203).
GreenIsProved == \A n \in Nodes : Shown(n) = "verified" => proof[n] < Ttl

\* A node is shown as failed only after each of its addresses had its attempt:
\* no full slot, missing core or address that time did not suffice for is taken
\* for a failure of the node (docs/API.md:229, CHANGELOG.md:92). A name that does
\* not resolve in time and a last address that is too slow do show as failed.
FailureIsConclusive ==
  \A n \in Nodes : Shown(n) \in {"failed", "tls_error"} => evidence[n].open = 0

\* All attempts of a probe, entry and core, over all addresses, end within its
\* one time limit: it does not outlive its lease by trying more addresses.
EndsInTime == \A n \in Nodes : probe[n].spent <= Timeout
=============================================================================
