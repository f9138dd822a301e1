-------------------------- MODULE ProbeStages_proof --------------------------
(***************************************************************************)
(* Proofs about ProbeStages, for any number of nodes, slots and addresses  *)
(* and any time limits that fit StageAssumption.                           *)
(***************************************************************************)
EXTENDS ProbeStages, TLAPS

USE StageAssumption

TypeInv ==
  /\ probe \in [Nodes -> Probe]
  /\ evidence \in [Nodes -> Evidence \cup {NoEvidence}]
  /\ age \in [Nodes -> 0 .. Ttl]
  /\ unfinished \in [Nodes -> BOOLEAN]
  /\ proof \in [Nodes -> 0 .. Ttl]

\* The deadlines of a running probe lie inside each other, and what is left of
\* the outermost one makes up for what is spent.
Nested(r) ==
  /\ r.pc \in {"resolve", "tcp", "tls", "slot", "core"} => r.spent + r.left = Timeout
  /\ r.pc \in {"resolve", "tcp", "tls", "core"} => r.step <= r.left
  /\ r.pc \in {"resolve", "tcp", "tls"} => r.step <= r.entry /\ r.entry <= r.left
  /\ r.pc \in {"idle", "save"} => r.spent = 0

\* As long as more addresses follow, the present one cannot use up the time of
\* the entry check. A verdict over the node leaves no address open.
Covered(r) ==
  /\ r.pc = "resolve" => r.todo = 0 /\ ~r.attempted
  /\ r.pc \in {"tcp", "tls", "slot", "core"} => r.todo >= 1
  /\ r.pc \in {"tcp", "tls"} => r.addresses >= 1 /\ (r.todo > 1 => r.step < r.entry)
  /\ r.pc = "save" /\ r.status \in {"failed", "tls_error"} => r.todo = 0

\* A proof is no older than the result that tells of it.
Proved(r, since) == r.pc = "save" /\ r.status = "verified" => since <= r.waited

Stored(e, old, since) ==
  e # NoEvidence =>
    /\ e.status \in {"failed", "tls_error"} => e.open = 0
    /\ e.status = "verified" /\ e.staged /\ e.version = 2 => since <= old

Inv ==
  /\ TypeInv
  /\ \A n \in Nodes : /\ Nested(probe[n]) /\ Covered(probe[n]) /\ Proved(probe[n], proof[n])
                      /\ Stored(evidence[n], age[n], proof[n])

\* What every step makes of its probe, unless a core has just proved it.
Sound(r) ==
  /\ r \in Probe /\ Nested(r) /\ Covered(r)
  /\ r.pc = "save" => r.status # "verified"

-----------------------------------------------------------------------------
(* Records.                                                                *)

\* A part of a budget fits into it, and leaves some when more are to follow.
LEMMA ShareFits ==
  ASSUME NEW t \in Nat, NEW k \in Nat \ {0}
  PROVE  /\ Share(t, k) \in 0 .. t
         /\ k > 1 /\ t > 0 => Share(t, k) < t
<1> DEFINE q == t \div k
<1>1. q \in Nat /\ t = k * q + (t % k) /\ t % k \in 0 .. k - 1
  OBVIOUS
<1>2. q <= k * q /\ k * q <= t
  <2>1. (k - 1) * q \in Nat
    BY <1>1
  <2>2. k * q = q + (k - 1) * q
    BY <1>1
  <2> QED
    BY <1>1, <2>1, <2>2
<1>3. ASSUME k > 1, t > 0, q >= t PROVE FALSE
  <2>1. (k - 2) * q \in Nat /\ k * q = q + q + (k - 2) * q
    BY <1>1, <1>3
  <2> QED
    BY <1>1, <1>2, <1>3, <2>1
<1> QED
  BY <1>1, <1>2, <1>3 DEF Share

LEMMA IdleSound == Sound(Idle) /\ Idle.pc = "idle"
BY DEF Idle, Sound, Probe, PC, Kind, Status, Nested, Covered

LEMMA FinishedSound ==
  ASSUME NEW r \in Probe, NEW s \in Status, s # "verified",
         s \in {"failed", "tls_error"} => r.todo = 0
  PROVE  Sound(Finished(r, s))
<1> DEFINE x == [Idle EXCEPT !.pc = "save", !.status = s, !.todo = r.todo]
<1>1. x \in Probe
  BY IdleSound DEF Sound, Probe, PC
<1>2. x.pc = "save" /\ x.status = s /\ x.todo = r.todo /\ x.spent = 0
  BY DEF Idle
<1> HIDE DEF x
<1>3. Sound(x)
  BY <1>1, <1>2 DEF Sound, Nested, Covered
<1> QED
  BY <1>3 DEF Finished, x

LEMMA EnteredSound ==
  ASSUME NEW r \in Probe, r.spent + r.left = Timeout, r.addresses >= 1,
         NEW s \in Status, s # "verified", s \in {"failed", "tls_error"} => r.todo = 0
  PROVE  Sound(Entered(r, s))
<1>1. CASE r.kind.core
  <2> DEFINE x == [Idle EXCEPT !.pc = "slot", !.todo = r.addresses, !.left = r.left, !.spent = r.spent]
  <2>1. x \in Probe
    BY IdleSound DEF Sound, Probe, PC
  <2>2. x.pc = "slot" /\ x.todo = r.addresses /\ x.left = r.left /\ x.spent = r.spent
    BY DEF Idle
  <2> HIDE DEF x
  <2>3. Sound(x)
    BY <2>1, <2>2 DEF Sound, Nested, Covered
  <2> QED
    BY <1>1, <2>3 DEF Entered, x
<1>2. CASE ~r.kind.core
  BY <1>2, FinishedSound DEF Entered
<1> QED
  BY <1>1, <1>2

LEMMA NextEntrySound ==
  ASSUME NEW r \in Probe, r.spent + r.left = Timeout, r.entry <= r.left, r.addresses >= 1,
         r.todo > 0 /\ r.entry = 0 => ~r.attempted
  PROVE  Sound(NextEntry(r))
<1>1. CASE r.todo = 0 \/ r.entry = 0
  <2>1. /\ Verdict(r) \in Status \ {"verified"}
        /\ Verdict(r) \in {"failed", "tls_error"} => r.todo = 0
    BY <1>1 DEF Verdict, Status, Probe
  <2> QED
    BY <1>1, <2>1, EnteredSound DEF NextEntry
<1>2. CASE r.todo # 0 /\ r.entry # 0
  <2> DEFINE step == Share(r.entry, r.todo)
             x == [r EXCEPT !.pc = "tcp", !.step = step, !.attempted = TRUE]
  <2>1. /\ r.todo \in Nat \ {0} /\ r.entry \in Nat \ {0} /\ r.left \in 0 .. Timeout
    BY <1>2 DEF Probe
  <2>2. step \in 0 .. r.entry /\ (r.todo > 1 => step < r.entry)
    BY <2>1, ShareFits
  <2>a. step \in 0 .. Timeout
    BY <2>1, <2>2
  <2> HIDE DEF step
  <2>3. x \in Probe
    BY <2>a DEF Probe, PC
  <2>4. /\ x.pc = "tcp" /\ x.step = step /\ x.entry = r.entry /\ x.left = r.left
        /\ x.spent = r.spent /\ x.todo = r.todo /\ x.addresses = r.addresses
    BY DEF Probe
  <2> HIDE DEF x
  <2>5. Sound(x)
    BY <2>1, <2>2, <2>3, <2>4 DEF Sound, Nested, Covered
  <2> QED
    BY <1>2, <2>5 DEF NextEntry, x, step
<1> QED
  BY <1>1, <1>2

LEMMA NextCoreSound ==
  ASSUME NEW r \in Probe, r.spent + r.left = Timeout, r.todo >= 1
  PROVE  Sound(NextCore(r))
<1>1. CASE r.left = 0
  BY <1>1, FinishedSound DEF NextCore, Status
<1>2. CASE r.left # 0
  <2> DEFINE step == Share(r.left, r.todo)
             x == [r EXCEPT !.pc = "core", !.step = step]
  <2>1. r.todo \in Nat \ {0} /\ r.left \in 0 .. Timeout
    BY DEF Probe
  <2>2. step \in 0 .. r.left
    BY <2>1, ShareFits
  <2>a. step \in 0 .. Timeout
    BY <2>1, <2>2
  <2> HIDE DEF step
  <2>3. x \in Probe
    BY <2>a DEF Probe, PC
  <2>4. x.pc = "core" /\ x.step = step /\ x.left = r.left /\ x.spent = r.spent /\ x.todo = r.todo
    BY DEF Probe
  <2> HIDE DEF x
  <2>5. Sound(x)
    BY <2>1, <2>2, <2>3, <2>4 DEF Sound, Nested, Covered
  <2> QED
    BY <1>2, <2>5 DEF NextCore, x, step
<1> QED
  BY <1>1, <1>2

LEMMA OlderFits ==
  ASSUME NEW k \in 0 .. Ttl, NEW j \in 0 .. Ttl
  PROVE  Older(k) \in 0 .. Ttl /\ (k <= j => Older(k) <= Older(j))
BY DEF Older

LEMMA TickedSound ==
  ASSUME NEW r \in Probe, Nested(r), Covered(r), r.pc # "slot",
         r.pc \in {"resolve", "tcp", "tls", "core"} => r.step > 0
  PROVE  /\ Ticked(r) \in Probe /\ Nested(Ticked(r)) /\ Covered(Ticked(r))
         /\ Ticked(r).pc = r.pc /\ Ticked(r).status = r.status
         /\ r.pc = "save" => Ticked(r).waited = Older(r.waited)
<1>1. CASE r.pc = "idle"
  BY <1>1 DEF Ticked
<1>2. CASE r.pc = "save"
  <2>1. Older(r.waited) \in 0 .. Ttl
    BY OlderFits DEF Probe
  <2> QED
    BY <1>2, <2>1 DEF Ticked, Probe, Nested, Covered
<1>3. CASE r.pc \notin {"idle", "save"}
  <2> DEFINE x == Ticked(r)
  <2>1. x = [r EXCEPT !.left = Minus1(@), !.entry = Minus1(@), !.step = @ - 1, !.spent = @ + 1]
    BY <1>3 DEF Ticked
  <2>2. /\ r.pc \in {"resolve", "tcp", "tls", "core"}
        /\ r.step > 0 /\ r.step <= r.left /\ r.left \in 0 .. Timeout /\ r.entry \in 0 .. EntryTimeout
        /\ r.step \in 0 .. Timeout /\ r.spent \in Nat
    BY <1>3 DEF Probe, PC, Nested
  <2>3. /\ Minus1(r.left) = r.left - 1
        /\ Minus1(r.entry) \in 0 .. EntryTimeout
        /\ r.pc # "core" => Minus1(r.entry) = r.entry - 1
    BY <2>2 DEF Minus1, Nested
  <2>4. x \in Probe
    <3>1. /\ r.left - 1 \in 0 .. Timeout /\ r.step - 1 \in 0 .. Timeout
          /\ r.spent + 1 \in Nat
      BY <2>2
    <3> QED
      BY <2>1, <2>3, <3>1 DEF Probe
  <2>5. /\ x.left = r.left - 1 /\ x.entry = Minus1(r.entry) /\ x.step = r.step - 1
        /\ x.spent = r.spent + 1 /\ x.pc = r.pc /\ x.todo = r.todo /\ x.addresses = r.addresses
        /\ x.attempted = r.attempted /\ x.status = r.status
    BY <2>1, <2>3 DEF Probe
  <2> HIDE DEF x
  <2>6. Nested(x)
    BY <2>2, <2>3, <2>5 DEF Nested
  <2>7. Covered(x)
    BY <2>2, <2>3, <2>5 DEF Covered
  <2> QED
    BY <1>3, <2>4, <2>5, <2>6, <2>7 DEF x
<1> QED
  BY <1>1, <1>2, <1>3

-----------------------------------------------------------------------------
(* Steps.                                                                  *)

LEMMA InitInv == Init => Inv
<1> SUFFICES ASSUME Init PROVE Inv
  OBVIOUS
<1>1. \A n \in Nodes : probe[n] = Idle /\ evidence[n] \in Old \cup {NoEvidence}
  BY DEF Init
<1>2. /\ Old \subseteq Evidence
      /\ \A e \in Old : e.status \notin {"failed", "tls_error"} /\ e.version # 2
  <2>1. ASSUME NEW f \in BOOLEAN
        PROVE  [status |-> "verified", version |-> 1, staged |-> f, open |-> 0] \in Evidence
    BY DEF Evidence, Status
  <2>2. [status |-> "entry", version |-> 0, staged |-> FALSE, open |-> 0] \in Evidence
    BY DEF Evidence, Status
  <2>3. Old \subseteq Evidence
    BY <2>1, <2>2 DEF Old
  <2> QED
    BY <2>3 DEF Old
<1>3. TypeInv
  BY <1>2, IdleSound DEF Init, TypeInv, Sound
<1>4. \A n \in Nodes : Stored(evidence[n], age[n], proof[n])
  BY <1>1, <1>2 DEF Stored
<1> QED
  BY <1>1, <1>3, <1>4, IdleSound DEF Inv, Sound, Proved

LEMMA MoveStep ==
  ASSUME Inv, NEW n \in Nodes, NEW x, Sound(x), Move(n, x)
  PROVE  Inv'
<1>1. /\ \A m \in Nodes : probe'[m] = IF m = n THEN x ELSE probe[m]
      /\ probe' \in [Nodes -> Probe]
  BY DEF Inv, TypeInv, Move, Sound
<1>2. \A m \in Nodes : /\ Nested(probe'[m]) /\ Covered(probe'[m]) /\ Proved(probe'[m], proof[m])
  BY <1>1 DEF Inv, Sound, Proved
<1> QED
  BY <1>1, <1>2 DEF Inv, TypeInv, Move

LEMMA TickStep == Inv /\ Tick => Inv'
<1> SUFFICES ASSUME Inv, Tick PROVE Inv'
  OBVIOUS
<1>1. /\ \A n \in Nodes : probe'[n] = Ticked(probe[n]) /\ age'[n] = Older(age[n]) /\ proof'[n] = Older(proof[n])
      /\ evidence' = evidence /\ unfinished' = unfinished
  BY DEF Tick
<1>2. \A n \in Nodes :
        /\ probe'[n] \in Probe /\ Nested(probe'[n]) /\ Covered(probe'[n])
        /\ probe'[n].pc = probe[n].pc /\ probe'[n].status = probe[n].status
        /\ probe[n].pc = "save" => probe'[n].waited = Older(probe[n].waited)
  BY <1>1, TickedSound DEF Inv, TypeInv, Tick, Waits
<1>3. \A n \in Nodes : age[n] \in 0 .. Ttl /\ proof[n] \in 0 .. Ttl /\ probe[n].waited \in 0 .. Ttl
  BY DEF Inv, TypeInv, Probe
<1>4. TypeInv'
  <2>1. /\ probe' \in [Nodes -> Probe]
        /\ age' \in [Nodes -> 0 .. Ttl] /\ proof' \in [Nodes -> 0 .. Ttl]
    BY <1>1, <1>2, <1>3, OlderFits DEF Tick
  <2> QED
    BY <1>1, <2>1 DEF Inv, TypeInv
<1>5. \A n \in Nodes : Proved(probe'[n], proof'[n])
  BY <1>1, <1>2, <1>3, OlderFits DEF Inv, Proved
<1>6. \A n \in Nodes : Stored(evidence'[n], age'[n], proof'[n])
  BY <1>1, <1>3, OlderFits DEF Inv, Stored
<1> QED
  BY <1>2, <1>4, <1>5, <1>6 DEF Inv

LEMMA BeginStep ==
  ASSUME Inv, NEW n \in Nodes, NEW k \in Kind, Begin(n, k)
  PROVE  Inv'
<1> DEFINE x == [Idle EXCEPT !.pc = "resolve", !.kind = k, !.left = Timeout,
                             !.entry = EntryTimeout, !.step = EntryTimeout]
<1>1. x \in Probe
  <2>1. Timeout \in 0 .. Timeout /\ EntryTimeout \in 0 .. EntryTimeout /\ EntryTimeout \in 0 .. Timeout
    OBVIOUS
  <2> QED
    BY <2>1, IdleSound DEF Sound, Probe, PC
<1>2. /\ x.pc = "resolve" /\ x.left = Timeout /\ x.entry = EntryTimeout /\ x.step = EntryTimeout
      /\ x.spent = 0 /\ x.todo = 0 /\ ~x.attempted
  BY DEF Idle
<1>3. probe' = [probe EXCEPT ![n] = x]
  BY DEF Begin
<1> HIDE DEF x
<1>4. Nested(x) /\ Covered(x) /\ \A since : Proved(x, since)
  BY <1>2 DEF Nested, Covered, Proved
<1>5. unfinished' \in [Nodes -> BOOLEAN]
  BY DEF Begin, Inv, TypeInv
<1>6. TypeInv'
  BY <1>1, <1>3, <1>5 DEF Begin, Inv, TypeInv
<1> QED
  BY <1>3, <1>4, <1>6 DEF Begin, Inv, TypeInv

LEMMA ResolveStep ==
  ASSUME Inv, NEW n \in Nodes, NEW k \in 1 .. MaxAddresses, Resolve(n, k)
  PROVE  Inv'
<1> DEFINE r == [probe[n] EXCEPT !.addresses = k, !.todo = k]
<1>0. /\ probe[n] \in Probe /\ Nested(probe[n]) /\ Covered(probe[n]) /\ probe[n].pc = "resolve"
      /\ Move(n, IF r.kind.tcp THEN NextEntry(r) ELSE Entered(r, "unsupported"))
  BY DEF Inv, TypeInv, Resolve
<1>1. r \in Probe /\ r.addresses = k
  <2>1. k \in 0 .. MaxAddresses
    OBVIOUS
  <2> QED
    BY <1>0, <2>1 DEF Probe
<1>2. /\ r.spent + r.left = Timeout /\ r.entry <= r.left /\ r.addresses >= 1 /\ ~r.attempted
  <2>1. /\ r.spent = probe[n].spent /\ r.left = probe[n].left /\ r.entry = probe[n].entry
        /\ r.attempted = probe[n].attempted
    BY <1>0 DEF Probe
  <2> QED
    BY <1>0, <1>1, <2>1 DEF Nested, Covered
<1> HIDE DEF r
<1>3. Sound(NextEntry(r)) /\ Sound(Entered(r, "unsupported"))
  BY <1>1, <1>2, NextEntrySound, EnteredSound DEF Status
<1> QED
  BY <1>0, <1>3, MoveStep

\* After one address of the entry check.
LEMMA AfterAddress ==
  ASSUME NEW r \in Probe, Nested(r), Covered(r), r.pc \in {"tcp", "tls"},
         NEW x \in Probe, x.todo = r.todo - 1, x.entry = r.entry, x.left = r.left,
         x.spent = r.spent, x.addresses = r.addresses
  PROVE  Sound(NextEntry(x))
<1>1. /\ r.todo \in 1 .. MaxAddresses /\ r.entry \in Nat /\ r.step \in Nat
  BY DEF Covered, Probe
<1>2. /\ x.spent + x.left = Timeout /\ x.entry <= x.left /\ x.addresses >= 1
      /\ ~(x.todo > 0 /\ x.entry = 0)
  BY <1>1 DEF Nested, Covered
<1> QED
  BY <1>2, NextEntrySound

LEMMA DoneProbe ==
  ASSUME NEW r \in Probe, r.todo >= 1
  PROVE  /\ Done(r) \in Probe /\ Done(r).todo = r.todo - 1 /\ Done(r).entry = r.entry
         /\ Done(r).left = r.left /\ Done(r).spent = r.spent /\ Done(r).addresses = r.addresses
         /\ Done(r).pc = r.pc
<1>1. r.todo - 1 \in 0 .. MaxAddresses
  BY DEF Probe
<1> QED
  BY <1>1 DEF Done, Probe

LEMMA EntryStep ==
  ASSUME Inv, NEW n \in Nodes,
         TcpFails(n) \/ TcpConnects(n) \/ TlsFails(n) \/ TlsSucceeds(n)
  PROVE  Inv'
<1> DEFINE r == probe[n]
<1>0. /\ r \in Probe /\ Nested(r) /\ Covered(r) /\ r.pc \in {"tcp", "tls"} /\ r.todo >= 1
      /\ r.spent + r.left = Timeout /\ r.addresses >= 1
  BY DEF Inv, TypeInv, TcpFails, TcpConnects, TlsFails, TlsSucceeds, Nested, Covered
<1>1. CASE TcpFails(n)
  <2>1. Sound(NextEntry(Done(r)))
    BY <1>0, AfterAddress, DoneProbe
  <2> QED
    BY <1>1, <2>1, MoveStep DEF TcpFails
<1>2. CASE TcpConnects(n)
  <2> DEFINE x == [r EXCEPT !.connected = TRUE]
  <2>1. /\ x \in Probe /\ x.todo = r.todo /\ x.entry = r.entry /\ x.left = r.left
        /\ x.spent = r.spent /\ x.addresses = r.addresses /\ x.pc = r.pc /\ x.step = r.step
    BY <1>0 DEF Probe
  <2>2. /\ x.pc = "tcp"
        /\ Move(n, IF ~x.kind.tls THEN Entered(x, "entry")
                   ELSE IF x.step = 0 THEN NextEntry(Done(x))
                   ELSE [x EXCEPT !.pc = "tls"])
    BY <1>2 DEF TcpConnects
  <2> HIDE DEF x
  <2>3. Sound(Entered(x, "entry"))
    BY <1>0, <2>1, EnteredSound DEF Status
  <2>4. Sound(NextEntry(Done(x)))
    BY <1>0, <2>1, AfterAddress, DoneProbe
  <2>5. Sound([x EXCEPT !.pc = "tls"])
    <3> DEFINE y == [x EXCEPT !.pc = "tls"]
    <3>1. y \in Probe
      BY <2>1 DEF Probe, PC
    <3>2. /\ y.pc = "tls" /\ y.todo = x.todo /\ y.entry = x.entry /\ y.left = x.left
          /\ y.spent = x.spent /\ y.addresses = x.addresses /\ y.step = x.step
      BY <2>1 DEF Probe
    <3> HIDE DEF y
    <3>3. Sound(y)
      BY <1>0, <2>1, <3>1, <3>2 DEF Sound, Nested, Covered
    <3> QED
      BY <3>3 DEF y
  <2> QED
    BY <2>2, <2>3, <2>4, <2>5, MoveStep
<1>3. CASE TlsFails(n)
  <2> DEFINE x == [Done(r) EXCEPT !.refused = TRUE]
  <2>1. /\ x \in Probe /\ x.todo = r.todo - 1 /\ x.entry = r.entry /\ x.left = r.left
        /\ x.spent = r.spent /\ x.addresses = r.addresses
    BY <1>0, DoneProbe DEF Probe
  <2>2. Move(n, NextEntry(x))
    BY <1>3 DEF TlsFails
  <2> HIDE DEF x
  <2>3. Sound(NextEntry(x))
    BY <1>0, <2>1, AfterAddress
  <2> QED
    BY <2>2, <2>3, MoveStep
<1>4. CASE TlsSucceeds(n)
  <2>1. Sound(Entered(r, "entry"))
    BY <1>0, EnteredSound DEF Status
  <2> QED
    BY <1>4, <2>1, MoveStep DEF TlsSucceeds
<1> QED
  BY <1>1, <1>2, <1>3, <1>4

LEMMA CoreStep ==
  ASSUME Inv, NEW n \in Nodes, TakeSlot(n) \/ CoreRefuses(n) \/ CoreBreaks(n)
  PROVE  Inv'
<1> DEFINE r == probe[n]
<1>0. /\ r \in Probe /\ r.todo >= 1 /\ r.spent + r.left = Timeout
  <2>1. r \in Probe /\ Nested(r) /\ Covered(r) /\ Done(r).pc = r.pc
    BY DEF Inv, TypeInv, Done, Probe
  <2>2. r.pc \in {"slot", "core"}
    BY <2>1 DEF TakeSlot, CoreRefuses, CoreBreaks
  <2> QED
    BY <2>1, <2>2 DEF Nested, Covered
<1>a. Sound(Finished(r, "error"))
  BY <1>0, FinishedSound DEF Status
<1>1. CASE TakeSlot(n)
  BY <1>0, <1>1, <1>a, NextCoreSound, MoveStep DEF TakeSlot
<1>2. CASE CoreRefuses(n)
  <2>1. Move(n, IF Done(r).todo = 0 THEN Finished(Done(r), "failed") ELSE NextCore(Done(r)))
    BY <1>2 DEF CoreRefuses
  <2>2. /\ Done(r) \in Probe /\ Done(r).todo \in Nat /\ Done(r).spent + Done(r).left = Timeout
    BY <1>0, DoneProbe DEF Probe
  <2>3. Done(r).todo = 0 => Sound(Finished(Done(r), "failed"))
    BY <2>2, FinishedSound DEF Status
  <2>4. Done(r).todo # 0 => Sound(NextCore(Done(r)))
    BY <2>2, NextCoreSound
  <2> QED
    BY <2>1, <2>3, <2>4, MoveStep
<1>3. CASE CoreBreaks(n)
  BY <1>3, <1>a, MoveStep DEF CoreBreaks
<1> QED
  BY <1>1, <1>2, <1>3

LEMMA ProveStep ==
  ASSUME Inv, NEW n \in Nodes, CoreProves(n)
  PROVE  Inv'
<1> DEFINE x == Finished(probe[n], "verified")
<1>0. probe[n] \in Probe
  BY DEF Inv, TypeInv
<1>1. x \in Probe
  BY <1>0, IdleSound DEF Finished, Sound, Probe, PC, Status
<1>2. x.pc = "save" /\ x.status = "verified" /\ x.spent = 0
  BY DEF Finished, Idle
<1>3. probe' = [probe EXCEPT ![n] = x] /\ proof' = [proof EXCEPT ![n] = 0]
      /\ UNCHANGED <<evidence, age, unfinished>>
  BY DEF CoreProves
<1> HIDE DEF x
<1>4. Nested(x) /\ Covered(x) /\ Proved(x, 0)
  BY <1>1, <1>2 DEF Nested, Covered, Proved, Probe
<1>5. TypeInv'
  BY <1>1, <1>3 DEF Inv, TypeInv
<1>6. \A m \in Nodes : /\ Nested(probe'[m]) /\ Covered(probe'[m]) /\ Proved(probe'[m], proof'[m])
  BY <1>3, <1>4 DEF Inv, TypeInv
<1>7. \A m \in Nodes : Stored(evidence'[m], age'[m], proof'[m])
  BY <1>3 DEF Inv, TypeInv, Stored
<1> QED
  BY <1>5, <1>6, <1>7 DEF Inv

LEMMA SaveStep ==
  ASSUME Inv, NEW n \in Nodes, Save(n)
  PROVE  Inv'
<1> DEFINE r == probe[n]
           e == [status |-> r.status, staged |-> r.status = "verified",
                 version |-> IF r.status = "verified" THEN 2 ELSE 1,
                 open |-> IF r.status \in {"failed", "tls_error"} THEN r.todo ELSE 0]
<1>0. /\ r \in Probe /\ Covered(r) /\ Proved(r, proof[n]) /\ r.pc = "save"
      /\ probe' = [probe EXCEPT ![n] = Idle] /\ proof' = proof
  BY DEF Inv, TypeInv, Save
<1>1. CASE r.status = "error"
  <2>1. Move(n, Idle)
    BY <1>0, <1>1 DEF Save, Move
  <2> QED
    BY <2>1, IdleSound, MoveStep
<1>2. CASE r.status # "error"
  <2>1. /\ evidence' = [evidence EXCEPT ![n] = e] /\ age' = [age EXCEPT ![n] = r.waited]
        /\ unfinished' = [unfinished EXCEPT ![n] = FALSE]
    BY <1>2 DEF Save, CheckedAge
  <2>2. e \in Evidence
    <3>1. r.status \in Status \ {"error"} /\ r.todo \in 0 .. MaxAddresses
      BY <1>0, <1>2 DEF Probe
    <3> QED
      BY <3>1 DEF Evidence
  <2>3. /\ e.status = r.status
        /\ e.status \in {"failed", "tls_error"} => e.open = r.todo
    OBVIOUS
  <2> HIDE DEF e
  <2>4. Stored(e, r.waited, proof[n])
    BY <1>0, <2>3 DEF Stored, Covered, Proved
  <2>5. TypeInv'
    BY <1>0, <2>1, <2>2, IdleSound DEF Inv, TypeInv, Sound, Probe
  <2>6. \A m \in Nodes : /\ Nested(probe'[m]) /\ Covered(probe'[m]) /\ Proved(probe'[m], proof'[m])
    BY <1>0, IdleSound DEF Inv, TypeInv, Sound, Proved
  <2>7. \A m \in Nodes : Stored(evidence'[m], age'[m], proof'[m])
    BY <1>0, <2>1, <2>4 DEF Inv, TypeInv
  <2> QED
    BY <2>5, <2>6, <2>7 DEF Inv
<1> QED
  BY <1>1, <1>2

\* Probes stay within their deadlines, verdicts cover all addresses, and what
\* is stored of a proof is no younger than the proof.
THEOREM InvHolds == Spec => []Inv
<1>1. Inv /\ [Next]_vars => Inv'
  <2> SUFFICES ASSUME Inv, [Next]_vars PROVE Inv'
    OBVIOUS
  <2>1. ASSUME NEW n \in Nodes, ResolveFails(n) PROVE Inv'
    <3>1. probe[n] \in Probe /\ probe[n].todo = 0
      BY <2>1 DEF Inv, TypeInv, Covered, ResolveFails
    <3>2. Sound(Finished(probe[n], "failed"))
      BY <3>1, FinishedSound DEF Status
    <3> QED
      BY <2>1, <3>2, MoveStep DEF ResolveFails
  <2>2. ASSUME NEW n \in Nodes, Crash(n) PROVE Inv'
    BY <2>2, IdleSound, MoveStep DEF Crash
  <2>3. CASE UNCHANGED vars
    BY <2>3 DEF vars, Inv, TypeInv
  <2> QED
    BY <2>1, <2>2, <2>3, TickStep, BeginStep, ResolveStep, EntryStep, CoreStep, ProveStep, SaveStep DEF Next
<1> QED
  BY InitInv, <1>1, PTL DEF Spec

\* Whatever its addresses do and however the time is divided, a probe's
\* attempts end within its limit (check_node_connect, verify_node_proxy).
THEOREM ProbesEndInTime == Spec => []EndsInTime
<1>1. Inv => EndsInTime
  BY DEF Inv, TypeInv, Probe, PC, Nested, EndsInTime
<1> QED
  BY <1>1, InvHolds, PTL

\* No address is without its attempt when a node is shown as failed
\* (check_node_connect, verify_node_proxy).
THEOREM FailuresConclusive == Spec => []FailureIsConclusive
<1>1. Inv => FailureIsConclusive
  BY DEF Inv, Stored, Shown, FailureIsConclusive
<1> QED
  BY <1>1, InvHolds, PTL

\* A node shown as verified was proved by a core within the lifetime of a
\* result (node_health, verify_node_proxy).
THEOREM GreenProved == Spec => []GreenIsProved
<1>1. Inv => GreenIsProved
  <2> SUFFICES ASSUME Inv, NEW n \in Nodes, Shown(n) = "verified" PROVE proof[n] < Ttl
    BY DEF GreenIsProved
  <2>1. /\ evidence[n] # NoEvidence /\ Current(n)
        /\ evidence[n].status = "verified" /\ evidence[n].staged
    BY DEF Shown
  <2>2. age[n] \in 0 .. Ttl /\ proof[n] \in 0 .. Ttl
    BY DEF Inv, TypeInv
  <2> QED
    BY <2>1, <2>2 DEF Inv, Stored, Current
<1> QED
  BY <1>1, InvHolds, PTL
=============================================================================
