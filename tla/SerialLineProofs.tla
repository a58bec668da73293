-------------------------- MODULE SerialLineProofs --------------------------
(***************************************************************************)
(* Proofs about SerialLine, under all the faults it knows.                 *)
(***************************************************************************)
EXTENDS SerialLine, MinFacts, FiniteSetTheorems, SequenceTheorems, TLAPS

\* What the sensor has sent and nobody has read yet.
Line == rx \o wire

Size(command) == Length[issued[command]]

-----------------------------------------------------------------------------
\* A caller that waits knows the command it waits for, and whatever is
\* underway belongs to a command that was sent.
TypesInv ==
    /\ TypeOK
    /\ job \in [Callers -> Kinds]
    /\ Len(issued) + Cardinality(Begun) <= MaxCommands
    /\ pc["task"] # "flag"
    /\ pc["task"] \in {"flush", "write"} => job["task"] = "identify"
    /\ pc["httpd"] = "flag" => job["httpd"] = "enroll"
    /\ \A p \in Callers : pc[p] \in {"flag", "lock", "read"} =>
           waiting[p] \in 1 .. Len(issued) /\ issued[waiting[p]] = job[p]
    /\ isInEnrollment => \E i \in 1 .. Len(issued) : issued[i] = "enroll"
    /\ inbox \in Seq(1 .. Len(issued)) /\ abandoned \subseteq 1 .. Len(issued)
    /\ \A i \in 1 .. Len(rx) : rx[i].of <= Len(issued)
    /\ \A i \in 1 .. Len(wire) : wire[i].of <= Len(issued)

\* What can be read is the end of a sequence of whole packages.
Follows(u, v) ==
    IF u.pos = Size(u.of) THEN v.pos = 1
    ELSE v.of = u.of /\ v.last = u.last /\ v.pos = u.pos + 1

StreamInv ==
    /\ \A i \in 1 .. Len(Line) : Line[i].pos <= Size(Line[i].of)
    /\ \A i \in 1 .. Len(Line) - 1 : Follows(Line[i], Line[i + 1])
    /\ Line # <<>> => Line[Len(Line)].pos = Size(Line[Len(Line)].of)

\* A command is carried out once, and nothing comes after its last package.
OnceInv ==
    /\ \A i, j \in 1 .. Len(inbox) : inbox[i] = inbox[j] => i = j
    /\ \A i \in 1 .. Len(inbox) :
           inbox[i] # sensor /\ \A k \in 1 .. Len(Line) : Line[k].of # inbox[i]
    /\ sensor # None => issued[sensor] # "ack"
    /\ \A k \in 1 .. Len(Line) : /\ Line[k].last => sensor # Line[k].of
                                 /\ issued[Line[k].of] = "ack" => Line[k].last
    /\ \A k, l \in 1 .. Len(Line) :
           k < l /\ Line[k].last /\ Line[l].of = Line[k].of => Line[l].pos = Line[k].pos + (l - k)

\* While no command of a kind has been given up on, whatever is underway for a
\* command of the kind is waited for.
Live(c) ==
    \/ \E i \in 1 .. Len(inbox) : inbox[i] = c
    \/ sensor = c
    \/ \E i \in 1 .. Len(Line) : Line[i].of = c

Waits(p) == pc[p] \in {"lock", "read"}

Newest(c) == \A d \in 1 .. Len(issued) : issued[d] = "enroll" => d <= c

Awaited(c) ==
    IF issued[c] = "enroll" THEN Newest(c) /\ (isInEnrollment \/ pc["httpd"] = "flag")
    ELSE \E p \in Callers : Waits(p) /\ waiting[p] = c

Kept(kind) == \A c \in abandoned : issued[c] # kind

AnswersInv ==
    /\ \A c \in 1 .. Len(issued) : Live(c) /\ Kept(issued[c]) => Awaited(c)
    /\ Kept("enroll") /\ isInEnrollment => pc["httpd"] # "flag"
    /\ Kept("enroll") /\ Waits("task") /\ job["task"] = "enroll"
           => isInEnrollment /\ Newest(waiting["task"])

\* Whoever has the line to itself finds nothing but the answer to its command.
OwnLine(p) ==
    /\ \A i \in 1 .. Len(inbox) : inbox[i] = waiting[p]
    /\ sensor \in {None, waiting[p]}
    /\ \A i \in 1 .. Len(Line) : Line[i].of = waiting[p]
    /\ 1 \in 1 .. Len(Line) => Line[1].pos = 1

HasLine(p) ==
    /\ \A q \in Callers \ {p} : Quiet(q)
    /\ pc[p] # "flush"
    /\ pc[p] = "write" => rx = <<>> /\ LineQuiet
    /\ Waits(p) => OwnLine(p)

AloneInv == \A p \in alone : HasLine(p)

-----------------------------------------------------------------------------
LEMMA BegunCounts ==
    ASSUME TypesInv, NEW p \in Callers, NEW to, Goes(p, to)
    PROVE  /\ Cardinality(Begun) \in Nat /\ Cardinality(Begun') \in Nat
           /\ Cardinality(Begun') <= Cardinality(Begun) + 1
           /\ pc[p] \in {"flush", "write"} \/ to \notin {"flush", "write"}
                  => Cardinality(Begun') <= Cardinality(Begun)
           /\ pc[p] \in {"flush", "write"} /\ to \notin {"flush", "write"}
                  => Cardinality(Begun') = Cardinality(Begun) - 1
<1>1. pc' = [pc EXCEPT ![p] = to] /\ DOMAIN pc = Callers
  BY DEF Goes, TypesInv, TypeOK
<1>2. IsFiniteSet(Callers)
  <2>1. Callers = ({} \cup {"httpd"}) \cup {"task"}
    BY DEF Callers
  <2> QED BY <2>1, FS_EmptySet, FS_AddElement
<1>3. IsFiniteSet(Begun)
  BY <1>2, FS_Subset DEF Begun
<1>4. /\ Cardinality(Begun \cup {p}) = IF p \in Begun THEN Cardinality(Begun) ELSE Cardinality(Begun) + 1
      /\ Cardinality(Begun \ {p}) = IF p \in Begun THEN Cardinality(Begun) - 1 ELSE Cardinality(Begun)
      /\ IsFiniteSet(Begun \cup {p}) /\ IsFiniteSet(Begun \ {p})
  BY <1>3, FS_AddElement, FS_RemoveElement
<1>5. Cardinality(Begun) \in Nat /\ Cardinality(Begun \cup {p}) \in Nat /\ Cardinality(Begun \ {p}) \in Nat
  BY <1>3, <1>4, FS_CardinalityType
<1>6. p \in Begun <=> pc[p] \in {"flush", "write"}
  BY DEF Begun
<1>7. Begun' = IF to \in {"flush", "write"} THEN Begun \cup {p} ELSE Begun \ {p}
  BY <1>1 DEF Begun
<1> HIDE DEF Begun
<1> QED BY <1>4, <1>5, <1>6, <1>7

LEMMA PackageSent ==
    ASSUME TypesInv, NEW c \in 1 .. Len(issued), NEW last \in BOOLEAN, Sends(c, last)
    PROVE  /\ wire' \in Seq(Units)
           /\ \/ UNCHANGED wire
              \/ /\ Len(wire') = Len(wire) + Size(c) /\ Len(wire) + Len(rx) + Size(c) <= MaxUnits
                 /\ \A i \in 1 .. Len(wire) : wire'[i] = wire[i]
                 /\ \A i \in 1 .. Size(c) :
                        wire'[Len(wire) + i] = [of |-> c, pos |-> i, last |-> last]
           /\ Size(c) \in Nat \ {0}
<1> DEFINE package == [i \in 1 .. Size(c) |-> [of |-> c, pos |-> i, last |-> last]]
<1>1. /\ wire \in Seq(Units) /\ Len(wire) \in Nat
      /\ issued[c] \in Kinds /\ c \in Commands
  <2>1. wire \in Seq(Units) /\ issued \in Seq(Kinds) /\ Len(issued) <= MaxCommands
    BY DEF TypesInv, TypeOK
  <2>2. wire \in Seq(Units) /\ Len(wire) \in Nat
    BY <2>1
  <2>3. issued[c] \in Kinds
    BY <2>1
  <2>4. Len(issued) \in Nat /\ MaxCommands \in Nat
    BY <2>1, LengthAssumption
  <2>5. c \in Commands
    BY <2>1, <2>4 DEF Commands
  <2> QED BY <2>2, <2>3, <2>5
<1>2. Size(c) \in Nat \ {0}
  BY <1>1, LengthAssumption DEF Size
<1>3. \A i \in 1 .. Size(c) : [of |-> c, pos |-> i, last |-> last] \in Units
  BY <1>1, <1>2 DEF Units
<1>4. package \in Seq(Units) /\ Len(package) = Size(c)
  <2>1. package \in [1 .. Size(c) -> Units]
    BY <1>3
  <2> QED BY <1>2, <2>1
<1>5. \/ UNCHANGED wire
      \/ Len(wire) + Len(rx) + Size(c) <= MaxUnits /\ wire' = wire \o package
  BY DEF Sends, Size
<1>6. \A i \in 1 .. Size(c) : package[i] = [of |-> c, pos |-> i, last |-> last]
  OBVIOUS
<1> HIDE DEF package, Size
<1>7. CASE wire' = wire \o package /\ Len(wire) + Len(rx) + Size(c) <= MaxUnits
  <2>1. /\ wire' \in Seq(Units) /\ Len(wire') = Len(wire) + Size(c)
        /\ \A i \in 1 .. Len(wire) + Size(c) :
               wire'[i] = IF i <= Len(wire) THEN wire[i] ELSE package[i - Len(wire)]
    BY <1>1, <1>4, <1>7, ConcatProperties
  <2>2. ASSUME NEW i \in 1 .. Len(wire) PROVE wire'[i] = wire[i]
    BY <1>1, <1>2, <2>1
  <2>3. ASSUME NEW i \in 1 .. Size(c) PROVE wire'[Len(wire) + i] = package[i]
    BY <1>1, <1>2, <2>1
  <2> QED BY <1>2, <1>6, <1>7, <2>1, <2>2, <2>3
<1> QED BY <1>1, <1>2, <1>5, <1>7

LEMMA TypesStep == TypesInv /\ [Next]_vars => TypesInv'
<1> SUFFICES ASSUME TypesInv, [Next]_vars PROVE TypesInv'
  OBVIOUS
<1> DEFINE Places == {"idle", "flush", "write", "flag", "lock", "read"}
           Does == /\ pc \in [Callers -> Places] /\ job \in [Callers -> Kinds]
                   /\ job["httpd"] \in {"ack", "enroll"} /\ job["task"] \in {"identify", "enroll"}
                   /\ job["httpd"] = "enroll" => pc["httpd"] \notin {"lock", "read"}
                   /\ pc["task"] # "flag"
                   /\ pc["task"] \in {"flush", "write"} => job["task"] = "identify"
                   /\ pc["httpd"] = "flag" => job["httpd"] = "enroll"
           Knows == /\ waiting \in [Callers -> 0 .. Len(issued)]
                    /\ \A p \in Callers : pc[p] \in {"flag", "lock", "read"} =>
                           waiting[p] \in 1 .. Len(issued) /\ issued[waiting[p]] = job[p]
                    /\ isInEnrollment \in BOOLEAN
                    /\ isInEnrollment => \E i \in 1 .. Len(issued) : issued[i] = "enroll"
                    /\ abandoned \subseteq 1 .. Len(issued) /\ alone \subseteq Callers
           Few == issued \in Seq(Kinds) /\ Len(issued) + Cardinality(Begun) <= MaxCommands
           OfIssued(s) == s \in Seq(Units) /\ \A i \in 1 .. Len(s) : s[i].of <= Len(issued)
           Sensor == inbox \in Seq(1 .. Len(issued)) /\ sensor \in 0 .. Len(issued)
           Underway == OfIssued(wire) /\ OfIssued(rx) /\ Len(wire) + Len(rx) <= MaxUnits
<1>n. /\ Len(issued) \in Nat /\ Len(issued) <= MaxCommands /\ MaxCommands \in Nat /\ MaxUnits \in Nat
      /\ 1 .. Len(issued) \subseteq Commands
      /\ Len(rx) \in Nat /\ Len(wire) \in Nat
      /\ \A p, q \in Callers : p # q => (p = "httpd" <=> q = "task")
      /\ Callers = {"httpd", "task"} /\ "httpd" \in Callers /\ "task" \in Callers
  BY LengthAssumption DEF TypesInv, TypeOK, Commands, Callers
<1>i. Does /\ Knows /\ Few /\ Sensor /\ Underway
  BY DEF TypesInv, TypeOK
<1>q. Does' /\ Knows' /\ Few' /\ Sensor' /\ Underway' => TypesInv'
  <2>1. ASSUME Few' PROVE Len(issued') \in Nat /\ Len(issued') <= MaxCommands
    <3>1. Cardinality(Begun') \in Nat
      <4>1. IsFiniteSet(Begun')
        <5>1. Callers = ({} \cup {"httpd"}) \cup {"task"} /\ Begun' \subseteq Callers
          BY DEF Callers, Begun
        <5>2. IsFiniteSet(Callers)
          BY <5>1, FS_EmptySet, FS_AddElement
        <5> QED BY <5>1, <5>2, FS_Subset
      <4> QED BY <4>1, FS_CardinalityType
    <3> QED BY <2>1, <3>1, <1>n
  <2>2. Sensor' /\ Few' /\ Knows' => inbox' \in Seq(Commands) /\ abandoned' \subseteq Commands
    <3>1. Few' => 1 .. Len(issued') \subseteq Commands
      BY <2>1, <1>n DEF Commands
    <3>2. Sensor' /\ Few' => inbox' \in Seq(Commands)
      BY <2>1, <1>n DEF Commands
    <3> HIDE DEF Sensor
    <3>3. Knows' => abandoned' \subseteq 1 .. Len(issued')
      OBVIOUS
    <3> HIDE DEF Knows, Few
    <3> QED BY <3>1, <3>2, <3>3
  <2> QED BY <2>1, <2>2 DEF TypesInv, TypeOK
\* A step that sends no command, and begins none.
<1>f. ASSUME UNCHANGED issued, NEW p \in Callers, NEW to, Goes(p, to),
             to \in {"flush", "write"} => pc[p] \in {"flush", "write"}
      PROVE  Few'
  <2>1. Cardinality(Begun) \in Nat /\ Cardinality(Begun') \in Nat
        /\ Cardinality(Begun') <= Cardinality(Begun)
    BY <1>f, BegunCounts
  <2> QED BY <2>1, <1>f, <1>i, <1>n
<1>k. /\ UNCHANGED <<pc, job>> => Does'
      /\ UNCHANGED <<pc, job, waiting, isInEnrollment, issued, abandoned>> /\ alone' \subseteq Callers
             => Knows'
      /\ UNCHANGED <<pc, issued>> => Few'
      /\ UNCHANGED <<issued, inbox, sensor>> => Sensor'
      /\ UNCHANGED <<issued, wire, rx>> => Underway'
      /\ UNCHANGED <<issued, wire>> /\ rx' = <<>> => Underway'
  <2>1. UNCHANGED <<pc, job>> => Does'
    BY <1>i
  <2>2. UNCHANGED <<pc, job, waiting, isInEnrollment, issued, abandoned>> /\ alone' \subseteq Callers
            => Knows'
    BY <1>i
  <2>3. UNCHANGED <<pc, issued>> => Few'
    BY <1>i DEF Begun
  <2>4. UNCHANGED <<issued, inbox, sensor>> => Sensor'
    BY <1>i
  <2>5. UNCHANGED <<issued, wire, rx>> => Underway'
    BY <1>i
  <2>6. UNCHANGED <<issued, wire>> /\ rx' = <<>> => Underway'
    <3>1. <<>> \in Seq(Units) /\ Len(<<>>) = 0
      BY EmptySeq
    <3>2. Len(wire) + 0 <= MaxUnits
      BY <1>i, <1>n
    <3> QED BY <3>1, <3>2, <1>i
  <2> QED BY <2>1, <2>2, <2>3, <2>4, <2>5, <2>6
<1> USE DEF callerVars, lineVars
<1>s. ASSUME NEW p \in Callers, NEW kind \in Kinds, Starts(p, kind),
             p = "task" <=> kind = "identify"
      PROVE  TypesInv'
  <2>1. /\ pc[p] = "idle" /\ pc' = [pc EXCEPT ![p] = "flush"] /\ job' = [job EXCEPT ![p] = kind]
        /\ Len(issued) + Cardinality(Begun) < MaxCommands
        /\ alone' = {} /\ UNCHANGED <<waiting, isInEnrollment, lineVars, issued, abandoned>>
        /\ Goes(p, "flush")
    BY <1>s DEF Starts, Goes
  <2>2. Does'
    BY <2>1, <1>s, <1>i, <1>n DEF Kinds
  <2>3. Knows'
    BY <2>1, <1>i, <1>n
  <2>4. Few'
    <3>1. Cardinality(Begun) \in Nat /\ Cardinality(Begun') \in Nat
          /\ Cardinality(Begun') <= Cardinality(Begun) + 1
      BY <2>1, BegunCounts
    <3> QED BY <2>1, <3>1, <1>i, <1>n
  <2> QED BY <2>1, <2>2, <2>3, <2>4, <1>k, <1>q
<1>1. CASE Command
  BY <1>1, <1>s DEF Command, Kinds, Callers
<1>2. CASE AutoEnroll
  BY <1>2, <1>s DEF AutoEnroll, Kinds, Callers
<1>3. CASE AutoIdentify
  BY <1>3, <1>s DEF AutoIdentify, Kinds, Callers
<1>4. CASE UNCHANGED vars
  BY <1>4, <1>i, <1>k, <1>q DEF vars
<1>5. CASE SetInEnrollment
  <2>1. /\ pc["httpd"] = "flag" /\ pc' = [pc EXCEPT !["httpd"] = "idle"]
        /\ Goes("httpd", "idle") /\ isInEnrollment' = TRUE /\ alone' = {}
        /\ UNCHANGED <<job, waiting, lineVars, issued, abandoned>>
    BY <1>5 DEF SetInEnrollment, Goes
  <2>2. Does'
    BY <2>1, <1>i, <1>n
  <2>3. waiting["httpd"] \in 1 .. Len(issued) /\ issued[waiting["httpd"]] = "enroll"
    BY <2>1, <1>i, <1>n
  <2>4. Knows'
    BY <2>1, <2>3, <1>i, <1>n
  <2>5. Few'
    BY <2>1, <1>f, <1>n
  <2> QED BY <2>1, <2>2, <2>4, <2>5, <1>k, <1>q
<1>6. CASE task_enroll
  <2> DEFINE enrolls == {k \in 1 .. Len(issued) : issued[k] = "enroll"}
             c == Max(enrolls)
  <2>1. /\ pc["task"] = "idle" /\ isInEnrollment /\ pc' = [pc EXCEPT !["task"] = "lock"]
        /\ Goes("task", "lock") /\ job' = [job EXCEPT !["task"] = "enroll"]
        /\ waiting' = [waiting EXCEPT !["task"] = c] /\ alone' = {}
        /\ UNCHANGED <<isInEnrollment, lineVars, issued, abandoned>>
    BY <1>6 DEF task_enroll, Goes
  <2>2. enrolls \subseteq 1 .. Len(issued) /\ enrolls # {}
    BY <2>1, <1>i
  <2>3. c \in enrolls
    <3> HIDE DEF enrolls
    <3> QED BY <2>2, <1>n, MaxOfBounded
  <2>4. c \in 1 .. Len(issued) /\ issued[c] = "enroll"
    BY <2>3
  <2> HIDE DEF c
  <2>5. Does'
    BY <2>1, <1>i, <1>n DEF Kinds
  <2>6. Knows'
    BY <2>1, <2>4, <1>i, <1>n
  <2>7. Few'
    BY <2>1, <1>f, <1>n
  <2> QED BY <2>1, <2>5, <2>6, <2>7, <1>k, <1>q
<1>7. ASSUME NEW p \in Callers, Flush(p) PROVE TypesInv'
  <2>1. /\ pc[p] = "flush" /\ pc' = [pc EXCEPT ![p] = "write"] /\ Goes(p, "write")
        /\ rx' = <<>> /\ alone' \subseteq Callers
        /\ UNCHANGED <<job, waiting, isInEnrollment, inbox, sensor, wire, issued, abandoned>>
    BY <1>7 DEF Flush, Goes
  <2>2. Does'
    BY <2>1, <1>i, <1>n
  <2>3. Knows'
    BY <2>1, <1>i, <1>n
  <2>4. Few'
    BY <2>1, <1>f, <1>n
  <2> QED BY <2>1, <2>2, <2>3, <2>4, <1>k, <1>q
<1>8. ASSUME NEW p \in Callers, WriteCommand(p) PROVE TypesInv'
  <2> DEFINE to == IF p = "httpd" /\ job[p] = "enroll" THEN "flag" ELSE "lock"
             c == Len(issued) + 1
  <2>1. /\ pc[p] = "write" /\ pc' = [pc EXCEPT ![p] = to] /\ Goes(p, to)
        /\ issued' = Append(issued, job[p]) /\ inbox' = Append(inbox, Len(issued'))
        /\ waiting' = [waiting EXCEPT ![p] = Len(issued')]
        /\ abandoned' = abandoned \cup Superseded(p)
        /\ UNCHANGED <<job, isInEnrollment, sensor, wire, rx, alone>>
    BY <1>8 DEF WriteCommand, Goes
  <2>2. job[p] \in Kinds
    BY <1>i
  <2>3. /\ issued' \in Seq(Kinds) /\ Len(issued') = c /\ issued'[c] = job[p]
        /\ \A k \in 1 .. Len(issued) : issued'[k] = issued[k]
    BY <2>1, <2>2, <1>i, AppendProperties
  <2>4. Few'
    <3>1. to \notin {"flush", "write"}
      OBVIOUS
    <3>2. Cardinality(Begun) \in Nat /\ Cardinality(Begun') = Cardinality(Begun) - 1
      BY <2>1, <3>1, BegunCounts
    <3> QED BY <2>3, <3>2, <1>i, <1>n
  <2>5. 1 .. Len(issued) \subseteq 1 .. c /\ c \in 1 .. c /\ c \in Nat /\ c # 0
    BY <1>n
  <2>6. Does'
    BY <2>1, <1>i, <1>n
  <2>7. Sensor' /\ Underway'
    <3>1. inbox' \in Seq(1 .. Len(issued'))
      <4>1. inbox \in Seq(1 .. c)
        BY <2>5, <1>i
      <4> QED BY <2>1, <2>3, <2>5, <4>1, AppendProperties
    <3>2. sensor' \in 0 .. Len(issued')
      BY <2>1, <2>3, <1>i, <1>n
    <3>3. Underway'
      <4>1. \A s : OfIssued(s) => \A k \in 1 .. Len(s) : s[k].of <= c
        <5> SUFFICES ASSUME NEW s, OfIssued(s), NEW k \in 1 .. Len(s) PROVE s[k].of <= c
          OBVIOUS
        <5>1. s[k] \in Units /\ s[k].of <= Len(issued)
          OBVIOUS
        <5> QED BY <5>1, <1>n DEF Units, Commands
      <4>2. \A k \in 1 .. Len(wire) : wire[k].of <= c
        BY <4>1, <1>i
      <4>3. \A k \in 1 .. Len(rx) : rx[k].of <= c
        BY <4>1, <1>i
      <4> HIDE DEF c
      <4> QED BY <2>1, <2>3, <4>2, <4>3, <1>i
    <3> QED BY <3>1, <3>2, <3>3
  <2>8. Knows'
    <3>1. waiting' \in [Callers -> 0 .. c]
      BY <2>1, <2>3, <2>5, <1>i, <1>n
    <3>2. ASSUME NEW q \in Callers, pc'[q] \in {"flag", "lock", "read"}
          PROVE  waiting'[q] \in 1 .. c /\ issued'[waiting'[q]] = job'[q]
      <4>1. CASE q = p
        BY <2>1, <2>3, <2>5, <4>1, <1>i
      <4>2. CASE q # p
        <5>1. waiting[q] \in 1 .. Len(issued) /\ issued[waiting[q]] = job[q] /\ waiting'[q] = waiting[q]
          BY <2>1, <3>2, <4>2, <1>i
        <5> QED BY <2>1, <2>3, <2>5, <5>1
      <4> QED BY <4>1, <4>2
    <3>3. isInEnrollment' => \E k \in 1 .. c : issued'[k] = "enroll"
      BY <2>1, <2>3, <2>5, <1>i
    <3>4. Len(issued') = c /\ isInEnrollment' \in BOOLEAN
      BY <2>1, <2>3, <1>i
    <3>5. abandoned' \subseteq 1 .. c /\ alone' \subseteq Callers
      <4>1. Superseded(p) \subseteq 1 .. Len(issued)
        BY DEF Superseded
      <4> QED BY <2>1, <2>5, <4>1, <1>i
    <3> HIDE DEF c, to
    <3> QED BY ONLY <3>1, <3>2, <3>3, <3>4, <3>5
  <2> QED BY <2>4, <2>6, <2>7, <2>8, <1>q
\* Those that end a call, or go on with it.
<1>c. ASSUME NEW p \in Callers, NEW to \in {"idle", "lock", "read"}, Goes(p, to),
             pc[p] \in {"lock", "read"},
             UNCHANGED <<job, waiting, issued, inbox, sensor, wire>>,
             OfIssued(rx'), Len(rx') <= Len(rx),
             isInEnrollment' \in {isInEnrollment, FALSE},
             abandoned' \subseteq 1 .. Len(issued), UNCHANGED alone
      PROVE  TypesInv'
  <2>1. pc' = [pc EXCEPT ![p] = to]
    BY <1>c DEF Goes
  <2>2. Does'
    BY <2>1, <1>c, <1>i, <1>n
  <2>3. Knows'
    <3>1. waiting' \in [Callers -> 0 .. Len(issued')] /\ alone' \subseteq Callers
          /\ isInEnrollment' \in BOOLEAN
      BY <1>c, <1>i
    <3>2. \A q \in Callers : pc'[q] \in {"flag", "lock", "read"} => pc[q] \in {"flag", "lock", "read"}
      BY <2>1, <1>c, <1>i
    <3>3. \A q \in Callers : pc'[q] \in {"flag", "lock", "read"} =>
              waiting'[q] \in 1 .. Len(issued') /\ issued'[waiting'[q]] = job'[q]
      BY <3>2, <1>c, <1>i
    <3>4. isInEnrollment' => isInEnrollment
      BY <1>c
    <3> QED BY <3>1, <3>3, <3>4, <1>c, <1>i
  <2>4. Few'
    BY <1>c, <1>f
  <2>5. Sensor'
    BY <1>c, <1>k
  <2>6. Underway'
    <3>1. Len(rx') \in Nat
      BY <1>c
    <3>2. OfIssued(rx)' /\ OfIssued(wire)'
      BY <1>c, <1>i
    <3>3. Len(wire') + Len(rx') <= MaxUnits
      <4>1. Len(wire) + Len(rx) <= MaxUnits /\ Len(rx') <= Len(rx) /\ Len(wire') = Len(wire)
        BY <1>c, <1>i
      <4> QED BY <3>1, <4>1, <1>n, LengthAssumption
    <3> QED BY <3>2, <3>3
  <2> QED BY <2>2, <2>3, <2>4, <2>5, <2>6, <1>q
<1>e. OfIssued(<<>>) /\ Len(<<>>) <= Len(rx)
  BY <1>n, EmptySeq
<1>a. ASSUME NEW p \in Callers, pc[p] \in {"lock", "read"}
      PROVE  /\ abandoned \cup {waiting[p]} \subseteq 1 .. Len(issued)
             /\ (isInEnrollment /\ ~(p = "task" /\ job[p] = "enroll")) \in {isInEnrollment, FALSE}
  <2>1. waiting[p] \in 1 .. Len(issued) /\ abandoned \subseteq 1 .. Len(issued) /\ isInEnrollment \in BOOLEAN
    BY <1>a, <1>i
  <2> QED BY <2>1
<1>9. ASSUME NEW p \in Callers, Lock(p) PROVE TypesInv'
  <2>1. /\ pc[p] = "lock" /\ Goes(p, "read")
        /\ UNCHANGED <<job, waiting, isInEnrollment, lineVars, issued, abandoned, alone>>
    BY <1>9 DEF Lock
  <2>2. OfIssued(rx') /\ Len(rx') <= Len(rx)
    BY <2>1, <1>i, <1>n
  <2>3. abandoned' \subseteq 1 .. Len(issued)
    BY <2>1, <1>i
  <2> HIDE DEF OfIssued
  <2> QED BY <2>1, <2>2, <2>3, <1>c
<1>10. ASSUME NEW p \in Callers, LockTimeout(p) PROVE TypesInv'
  <2>1. /\ pc[p] = "lock" /\ Goes(p, "idle")
        /\ abandoned' = abandoned \cup {waiting[p]}
        /\ isInEnrollment' = (isInEnrollment /\ ~(p = "task" /\ job[p] = "enroll"))
        /\ UNCHANGED <<job, waiting, issued, alone, lineVars>>
    BY <1>10 DEF LockTimeout, Fails
  <2>2. OfIssued(rx') /\ Len(rx') <= Len(rx)
    BY <2>1, <1>i, <1>n
  <2> QED BY <2>1, <2>2, <1>a, <1>c
<1>11. ASSUME NEW p \in Callers, ReadTimeout(p) PROVE TypesInv'
  <2>1. /\ pc[p] = "read" /\ Goes(p, "idle") /\ rx' = <<>>
        /\ abandoned' = abandoned \cup {waiting[p]}
        /\ isInEnrollment' = (isInEnrollment /\ ~(p = "task" /\ job[p] = "enroll"))
        /\ UNCHANGED <<job, waiting, issued, alone, inbox, sensor, wire>>
    BY <1>11 DEF ReadTimeout, Fails
  <2> QED BY <2>1, <1>a, <1>c, <1>e
<1>12. ASSUME NEW p \in Callers, receiveAndCheckPackage(p) PROVE TypesInv'
  <2>1. /\ pc[p] = "read" /\ Len(rx) >= Expected(p)
        /\ rx' = SubSeq(rx, Expected(p) + 1, Len(rx))
        /\ UNCHANGED <<job, waiting, issued, alone, inbox, sensor, wire>>
        /\ \/ /\ Goes(p, "idle") /\ abandoned' = abandoned \cup {waiting[p]}
              /\ isInEnrollment' = (isInEnrollment /\ ~(p = "task" /\ job[p] = "enroll"))
           \/ /\ Goes(p, "idle") \/ Goes(p, "lock")
              /\ isInEnrollment' = (isInEnrollment /\ ~(job[p] = "enroll" /\ rx[1].last))
              /\ UNCHANGED abandoned
    BY <1>12 DEF receiveAndCheckPackage, Received, Fails
  <2>2. Expected(p) \in Nat \ {0}
    BY <1>i, LengthAssumption DEF Expected
  <2>3. OfIssued(rx') /\ Len(rx') <= Len(rx)
    <3> DEFINE n == Expected(p)
    <3>1. n \in Nat \ {0} /\ n <= Len(rx)
      BY <2>1, <2>2
    <3> HIDE DEF n
    <3>2. \A k \in n + 1 .. Len(rx) : rx[k] \in Units /\ rx[k].of <= Len(issued)
      BY <3>1, <1>i, <1>n
    <3>3. /\ rx' \in Seq(Units) /\ Len(rx') = Len(rx) - n
          /\ \A k \in 1 .. Len(rx) - n : rx'[k] = rx[n + 1 + k - 1]
      <4>1. rx' = SubSeq(rx, n + 1, Len(rx))
        BY <2>1 DEF n
      <4>2. /\ SubSeq(rx, n + 1, Len(rx)) \in Seq(Units)
            /\ Len(SubSeq(rx, n + 1, Len(rx)))
                   = IF n + 1 <= Len(rx) THEN Len(rx) - (n + 1) + 1 ELSE 0
            /\ \A k \in 1 .. Len(rx) - (n + 1) + 1 : SubSeq(rx, n + 1, Len(rx))[k] = rx[n + 1 + k - 1]
        BY <3>1, <3>2, <1>n, SubSeqProperties
      <4> QED BY <3>1, <4>1, <4>2, <1>n
    <3>4. \A k \in 1 .. Len(rx) - n : n + 1 + k - 1 \in n + 1 .. Len(rx)
      BY <3>1, <1>n
    <3>5. ASSUME NEW k \in 1 .. Len(rx') PROVE rx'[k].of <= Len(issued)
      <4>1. k \in 1 .. Len(rx) - n
        BY <3>3
      <4>2. rx'[k] = rx[n + 1 + k - 1] /\ n + 1 + k - 1 \in n + 1 .. Len(rx)
        BY <3>3, <3>4, <4>1
      <4> QED BY <3>2, <4>2
    <3>6. Len(rx) - n <= Len(rx)
      BY <3>1, <1>n
    <3> QED BY <3>3, <3>5, <3>6
  <2>4. isInEnrollment' \in {isInEnrollment, FALSE} /\ abandoned' \subseteq 1 .. Len(issued)
    <3>1. (isInEnrollment /\ ~(job[p] = "enroll" /\ rx[1].last)) \in {isInEnrollment, FALSE}
      BY <1>i
    <3> QED BY <2>1, <3>1, <1>a, <1>i
  <2> QED BY <2>1, <2>3, <2>4, <1>c
\* The sensor and the line.
<1>l. ASSUME UNCHANGED <<callerVars, rx, issued, abandoned>>, alone' \subseteq Callers, Sensor',
             \/ UNCHANGED wire
             \/ \E c \in 1 .. Len(issued), last \in BOOLEAN : Sends(c, last)
      PROVE  TypesInv'
  <2>1. Does' /\ Knows' /\ Few'
    BY <1>l, <1>k
  <2>2. CASE UNCHANGED wire
    BY <2>1, <2>2, <1>l, <1>k, <1>q
  <2>3. CASE \E c \in 1 .. Len(issued), last \in BOOLEAN : Sends(c, last)
    <3>1. PICK c \in 1 .. Len(issued), last \in BOOLEAN : Sends(c, last)
      BY <2>3
    <3>2. /\ wire' \in Seq(Units) /\ Size(c) \in Nat \ {0}
          /\ \/ UNCHANGED wire
             \/ /\ Len(wire') = Len(wire) + Size(c) /\ Len(wire) + Len(rx) + Size(c) <= MaxUnits
                /\ \A k \in 1 .. Len(wire) : wire'[k] = wire[k]
                /\ \A k \in 1 .. Size(c) :
                       wire'[Len(wire) + k] = [of |-> c, pos |-> k, last |-> last]
      BY <3>1, PackageSent
    <3>3. CASE Len(wire') = Len(wire) + Size(c) /\ UNCHANGED rx
      <4>1. ASSUME NEW k \in 1 .. Len(wire'), wire' # wire PROVE wire'[k].of <= Len(issued)
        <5>1. CASE k <= Len(wire)
          <6>1. k \in 1 .. Len(wire)
            BY <3>3, <5>1, <1>n
          <6>2. wire'[k] = wire[k] /\ wire[k].of <= Len(issued)
            BY <3>2, <4>1, <6>1, <1>i
          <6> QED BY <6>2
        <5>2. CASE k > Len(wire)
          <6>1. k - Len(wire) \in 1 .. Size(c) /\ Len(wire) + (k - Len(wire)) = k
            BY <3>2, <3>3, <5>2, <1>n
          <6>2. wire'[k] = [of |-> c, pos |-> k - Len(wire), last |-> last]
            BY <3>2, <3>3, <4>1, <6>1
          <6>3. c <= Len(issued)
            BY <1>n
          <6> QED BY <6>2, <6>3
        <5> QED BY <5>1, <5>2, <3>2, <3>3, <1>n
      <4>2. CASE wire' # wire
        <5>1. Len(wire') + Len(rx') <= MaxUnits
          <6>1. Len(wire') = Len(wire) + Size(c) /\ Len(wire) + Len(rx) + Size(c) <= MaxUnits
                /\ rx' = rx
            BY <3>2, <3>3, <4>2
          <6> HIDE DEF Size
          <6> QED BY <6>1, <3>2, <1>n
        <5>2. OfIssued(wire)' /\ OfIssued(rx)'
          BY <3>2, <3>3, <4>1, <4>2, <1>l, <1>i
        <5> QED BY <2>1, <5>1, <5>2, <1>l, <1>q
      <4> QED BY <2>1, <4>2, <1>l, <1>k, <1>q
    <3>4. CASE UNCHANGED wire
      BY <2>1, <3>4, <1>l, <1>k, <1>q
    <3> QED BY <3>2, <3>3, <3>4, <1>l
  <2> QED BY <2>2, <2>3, <1>l
<1>13. CASE SensorTakes
  <2>1. /\ inbox # <<>> /\ inbox' = Tail(inbox)
        /\ \/ Sends(Head(inbox), TRUE) /\ sensor' \in {sensor, None}
           \/ sensor' = Head(inbox) /\ UNCHANGED <<wire, alone>>
        /\ UNCHANGED <<callerVars, rx, issued, abandoned>>
    BY <1>13 DEF SensorTakes
  <2>2. Head(inbox) \in 1 .. Len(issued) /\ Tail(inbox) \in Seq(1 .. Len(issued))
    BY <2>1, <1>i, HeadTailProperties
  <2>3. Sensor'
    <3>1. inbox' \in Seq(1 .. Len(issued')) /\ Len(issued') = Len(issued)
      BY <2>1, <2>2
    <3>2. sensor' \in {sensor, 0, Head(inbox)}
      BY <2>1 DEF None
    <3>3. sensor' \in 0 .. Len(issued)
      BY <2>2, <3>2, <1>i, <1>n
    <3> QED BY <3>1, <3>3
  <2>4. alone' \subseteq Callers
    BY <2>1, <1>i DEF Sends
  <2> QED BY <2>1, <2>2, <2>3, <2>4, <1>l
<1>14. CASE SensorProgress \/ SensorEnds
  <2>1. /\ sensor # None /\ sensor' \in {sensor, None} /\ UNCHANGED inbox
        /\ \E last \in BOOLEAN : Sends(sensor, last)
        /\ UNCHANGED <<callerVars, rx, issued, abandoned>>
    BY <1>14 DEF SensorProgress, SensorEnds
  <2>2. sensor \in 1 .. Len(issued) /\ Sensor'
    <3>1. sensor \in 0 .. Len(issued) /\ sensor # 0 /\ sensor' \in {sensor, 0}
      BY <2>1, <1>i DEF None
    <3>2. sensor \in 1 .. Len(issued) /\ sensor' \in 0 .. Len(issued)
      BY <3>1, <1>n
    <3>3. inbox' = inbox /\ issued' = issued
      BY <2>1
    <3> QED BY <3>2, <3>3, <1>i
  <2>3. alone' \subseteq Callers
    BY <2>1, <1>i DEF Sends
  <2> QED BY <2>1, <2>2, <2>3, <1>l
<1>15. CASE Arrive
  <2>1. /\ wire # <<>> /\ rx' = Append(rx, Head(wire)) /\ wire' = Tail(wire)
        /\ UNCHANGED <<callerVars, inbox, sensor, issued, abandoned, alone>>
    BY <1>15 DEF Arrive
  <2>2. /\ Head(wire) \in Units /\ Tail(wire) \in Seq(Units) /\ Len(Tail(wire)) = Len(wire) - 1
        /\ \A k \in 1 .. Len(Tail(wire)) : Tail(wire)[k] = wire[k + 1]
        /\ Head(wire) = wire[1] /\ Len(wire) \in Nat \ {0}
    BY <2>1, <1>i, HeadTailProperties, EmptySeq
  <2>3. /\ rx' \in Seq(Units) /\ Len(rx') = Len(rx) + 1
        /\ \A k \in 1 .. Len(rx) : rx'[k] = rx[k]
        /\ rx'[Len(rx) + 1] = wire[1]
    BY <2>1, <2>2, <1>i, AppendProperties
  <2>4. \A k \in 1 .. Len(rx') : rx'[k].of <= Len(issued)
    <3>1. \A k \in 1 .. Len(rx') : k \in 1 .. Len(rx) \/ k = Len(rx) + 1
      BY <2>3, <1>n
    <3>2. wire[1].of <= Len(issued)
      BY <2>2, <1>i
    <3> QED BY <2>3, <3>1, <3>2, <1>i
  <2>5. \A k \in 1 .. Len(wire') : wire'[k].of <= Len(issued)
    <3>1. \A k \in 1 .. Len(wire') : k + 1 \in 1 .. Len(wire)
      BY <2>1, <2>2
    <3> QED BY <2>1, <2>2, <3>1, <1>i
  <2>6. Underway'
    <3>1. Len(wire') + Len(rx') <= MaxUnits
      <4>1. Len(wire') = Len(wire) - 1 /\ Len(rx') = Len(rx) + 1 /\ Len(wire) + Len(rx) <= MaxUnits
        BY <2>1, <2>2, <2>3, <1>i
      <4> QED BY <4>1, <1>n
    <3> QED BY <2>1, <2>2, <2>3, <2>4, <2>5, <3>1
  <2> QED BY <2>1, <2>6, <1>i, <1>k, <1>q
<1> QED BY <1>1, <1>2, <1>3, <1>4, <1>5, <1>6, <1>7, <1>8, <1>9, <1>10, <1>11, <1>12, <1>13,
           <1>14, <1>15
        DEF Next, CallerStep, task_detect

LEMMA TypesInitially == Init => TypesInv
<1> SUFFICES ASSUME Init PROVE TypesInv
  OBVIOUS
<1>1. Begun = {}
  BY DEF Init, Begun
<1>2. Cardinality(Begun) = 0
  BY <1>1, FS_EmptySet
<1>3. MaxCommands \in Nat /\ MaxUnits \in Nat
  BY LengthAssumption
<1>4. /\ issued = <<>> /\ inbox = <<>> /\ wire = <<>> /\ rx = <<>>
      /\ Len(<<>>) = 0 /\ <<>> \in Seq(Kinds) /\ <<>> \in Seq(Commands) /\ <<>> \in Seq(Units)
      /\ \A S : <<>> \in Seq(S)
  BY EmptySeq DEF Init
<1>5. TypeOK
  <2>1. Len(issued) <= MaxCommands /\ Len(wire) + Len(rx) <= MaxUnits
    BY <1>3, <1>4
  <2>2. \A p \in Callers : pc[p] = "idle"
    BY DEF Init
  <2>3. sensor \in 0 .. Len(issued) /\ waiting \in [Callers -> 0 .. Len(issued)]
    BY <1>4 DEF Init, None
  <2>4. /\ pc \in [Callers -> {"idle", "flush", "write", "flag", "lock", "read"}]
        /\ job["httpd"] \in {"ack", "enroll"} /\ job["task"] \in {"identify", "enroll"}
        /\ pc["httpd"] = "idle"
    BY DEF Init, Callers
  <2>5. isInEnrollment \in BOOLEAN /\ abandoned \subseteq Commands /\ alone \subseteq Callers
    BY DEF Init
  <2> QED BY <1>4, <2>1, <2>2, <2>3, <2>4, <2>5 DEF TypeOK
<1>6. Len(issued) + Cardinality(Begun) <= MaxCommands
  BY <1>2, <1>3, <1>4
<1> QED BY <1>4, <1>5, <1>6 DEF Init, TypesInv, Callers, Kinds

\* The state has the types TypeOK gives it; the bounds on the commands and the
\* units underway are kept.
THEOREM SerialLineTypeCorrect == Spec => []TypeOK
<1>1. TypesInv => TypeOK
  BY DEF TypesInv
<1> QED BY <1>1, TypesInitially, TypesStep, PTL DEF Spec

-----------------------------------------------------------------------------
\* What a step does to the line: it takes the first k units from it, or a
\* package is added at its end.
Drops(k) ==
    /\ k \in 0 .. Len(Line) /\ Len(Line') = Len(Line) - k
    /\ \A i \in 1 .. Len(Line') : Line'[i] = Line[i + k]

Grows(c, last) ==
    /\ Len(Line') = Len(Line) + Size(c)
    /\ \A i \in 1 .. Len(Line) : Line'[i] = Line[i]
    /\ \A i \in 1 .. Size(c) : Line'[Len(Line) + i] = [of |-> c, pos |-> i, last |-> last]

LineParts ==
    /\ Line \in Seq(Units) /\ Len(Line) = Len(rx) + Len(wire) /\ Len(Line) \in Nat
    /\ Len(rx) \in Nat /\ Len(wire) \in Nat
    /\ \A i \in 1 .. Len(rx) : Line[i] = rx[i]
    /\ \A i \in 1 .. Len(wire) : Line[Len(rx) + i] = wire[i]
    /\ \A i \in 1 .. Len(Line) : /\ Line[i] \in Units
                                 /\ Line[i].of \in 1 .. Len(issued)
                                 /\ Line[i].pos \in Nat \ {0}
    /\ \A c \in 1 .. Len(issued) : Size(c) \in Nat \ {0} /\ issued[c] \in Kinds

LEMMA LineFacts == TypesInv => LineParts
<1> SUFFICES ASSUME TypesInv PROVE LineParts
  OBVIOUS
<1>1. /\ rx \in Seq(Units) /\ wire \in Seq(Units) /\ Len(rx) \in Nat /\ Len(wire) \in Nat
      /\ issued \in Seq(Kinds)
      /\ \A i \in 1 .. Len(rx) : rx[i].of <= Len(issued)
      /\ \A i \in 1 .. Len(wire) : wire[i].of <= Len(issued)
  BY DEF TypesInv, TypeOK
<1>2. /\ Line \in Seq(Units) /\ Len(Line) = Len(rx) + Len(wire)
      /\ \A i \in 1 .. Len(rx) + Len(wire) :
             Line[i] = IF i <= Len(rx) THEN rx[i] ELSE wire[i - Len(rx)]
  BY <1>1, ConcatProperties DEF Line
<1> HIDE DEF Line
<1>3. ASSUME NEW i \in 1 .. Len(rx) PROVE Line[i] = rx[i]
  BY <1>1, <1>2
<1>4. ASSUME NEW i \in 1 .. Len(wire) PROVE Line[Len(rx) + i] = wire[i]
  <2>1. Len(rx) + i \in 1 .. Len(rx) + Len(wire) /\ ~(Len(rx) + i <= Len(rx))
        /\ (Len(rx) + i) - Len(rx) = i
    BY <1>1
  <2> QED BY <1>2, <2>1
<1>5. ASSUME NEW i \in 1 .. Len(Line)
      PROVE  Line[i] \in Units /\ Line[i].of \in 1 .. Len(issued) /\ Line[i].pos \in Nat \ {0}
  <2>1. Line[i] \in Units
    BY <1>2
  <2>2. Line[i].of <= Len(issued)
    <3>1. CASE i <= Len(rx)
      BY <1>1, <1>2, <1>3, <3>1
    <3>2. CASE i > Len(rx)
      <4>1. i - Len(rx) \in 1 .. Len(wire) /\ Line[i] = wire[i - Len(rx)]
        BY <1>1, <1>2, <3>2
      <4> QED BY <1>1, <4>1
    <3> QED BY <1>1, <1>2, <3>1, <3>2
  <2> QED BY <1>1, <2>1, <2>2 DEF Units, Commands
<1>6. \A c \in 1 .. Len(issued) : Size(c) \in Nat \ {0} /\ issued[c] \in Kinds
  BY <1>1, LengthAssumption DEF Size
<1>7. Len(Line) \in Nat /\ Line \in Seq(Units) /\ Len(Line) = Len(rx) + Len(wire)
  BY <1>1, <1>2
<1>8. Len(rx) \in Nat /\ Len(wire) \in Nat
  BY <1>1
<1> QED BY ONLY <1>3, <1>4, <1>5, <1>6, <1>7, <1>8 DEF LineParts

LEMMA LineDropped ==
    ASSUME TypesInv, TypesInv', UNCHANGED wire, NEW k \in 0 .. Len(rx), Len(rx') = Len(rx) - k,
           \A i \in 1 .. Len(rx') : rx'[i] = rx[i + k]
    PROVE  Drops(k)
<1>1. /\ Len(Line) = Len(rx) + Len(wire) /\ Len(rx) \in Nat /\ Len(wire) \in Nat
      /\ \A i \in 1 .. Len(rx) : Line[i] = rx[i]
      /\ \A i \in 1 .. Len(wire) : Line[Len(rx) + i] = wire[i]
  BY LineFacts DEF LineParts
<1>2. /\ Len(Line') = Len(rx') + Len(wire)
      /\ \A i \in 1 .. Len(rx') : Line'[i] = rx'[i]
      /\ \A i \in 1 .. Len(wire) : Line'[Len(rx') + i] = wire[i]
  <2>1. LineParts'
    BY LineFacts, PTL
  <2> QED BY <2>1 DEF LineParts
<1>3. ASSUME NEW i \in 1 .. Len(Line') PROVE Line'[i] = Line[i + k]
  <2>1. CASE i <= Len(rx')
    <3>1. i \in 1 .. Len(rx') /\ i + k \in 1 .. Len(rx)
      BY <1>1, <1>2, <2>1
    <3> QED BY <1>1, <1>2, <3>1
  <2>2. CASE i > Len(rx')
    <3>1. /\ i - Len(rx') \in 1 .. Len(wire)
          /\ Len(rx') + (i - Len(rx')) = i /\ Len(rx) + (i - Len(rx')) = i + k
      BY <1>1, <1>2, <2>2
    <3>2. Line'[i] = wire[i - Len(rx')] /\ Line[i + k] = wire[i - Len(rx')]
      BY <1>1, <1>2, <3>1
    <3> QED BY <3>2
  <2> QED BY <1>1, <1>2, <2>1, <2>2
<1> QED BY <1>1, <1>2, <1>3 DEF Drops

LEMMA LineArrives ==
    ASSUME TypesInv, TypesInv', Arrive
    PROVE  Line' = Line
<1>1. /\ wire # <<>> /\ rx' = Append(rx, Head(wire)) /\ wire' = Tail(wire)
      /\ rx \in Seq(Units) /\ wire \in Seq(Units)
  BY DEF Arrive, TypesInv, TypeOK
<1>2. /\ Head(wire) = wire[1] /\ Len(Tail(wire)) = Len(wire) - 1 /\ Len(wire) \in Nat \ {0}
      /\ \A i \in 1 .. Len(Tail(wire)) : Tail(wire)[i] = wire[i + 1]
      /\ Head(wire) \in Units
  BY <1>1, HeadTailProperties, EmptySeq
<1>3. /\ Len(rx') = Len(rx) + 1 /\ \A i \in 1 .. Len(rx) : rx'[i] = rx[i]
      /\ rx'[Len(rx) + 1] = wire[1]
  BY <1>1, <1>2, AppendProperties
<1>4. LineParts /\ LineParts'
  BY LineFacts, PTL
<1>5. Len(Line') = Len(Line)
  BY <1>1, <1>2, <1>3, <1>4 DEF LineParts
<1>6. ASSUME NEW i \in 1 .. Len(Line) PROVE Line'[i] = Line[i]
  <2> USE DEF LineParts
  <2>1. CASE i <= Len(rx)
    <3>1. i \in 1 .. Len(rx) /\ i \in 1 .. Len(rx')
      BY <1>3, <1>4, <2>1
    <3> QED BY <1>3, <1>4, <3>1
  <2>2. CASE i = Len(rx) + 1
    <3>1. i \in 1 .. Len(rx') /\ 1 \in 1 .. Len(wire)
      BY <1>2, <1>3, <1>4, <2>2
    <3>2. Line'[i] = rx'[i] /\ Line[Len(rx) + 1] = wire[1]
      BY <1>4, <3>1
    <3> QED BY <1>3, <3>2, <2>2
  <2>3. CASE i > Len(rx) + 1
    <3> DEFINE k == i - (Len(rx) + 1)
    <3>1. k \in 1 .. Len(wire') /\ k + 1 \in 1 .. Len(wire)
          /\ Len(rx') + k = i /\ Len(rx) + (k + 1) = i
      BY <1>1, <1>2, <1>3, <1>4, <2>3
    <3> HIDE DEF k
    <3>2. Line'[i] = wire'[k] /\ Line[i] = wire[k + 1] /\ wire'[k] = wire[k + 1]
      BY <1>1, <1>2, <1>4, <3>1
    <3> QED BY <3>2
  <2> QED BY <1>4, <2>1, <2>2, <2>3
<1>7. Line \in Seq(Units) /\ Line' \in Seq(Units)
  BY <1>4 DEF LineParts
<1> HIDE DEF Line
<1> QED BY <1>5, <1>6, <1>7, SeqEqual

LEMMA LineGrows ==
    ASSUME TypesInv, TypesInv', UNCHANGED <<rx, issued>>,
           NEW c \in 1 .. Len(issued), NEW last \in BOOLEAN, Sends(c, last)
    PROVE  Drops(0) \/ Grows(c, last)
<1>1. LineParts /\ LineParts'
  BY LineFacts, PTL
<1>2. CASE UNCHANGED wire
  <2>1. Line' = Line /\ Len(Line) \in Nat
    BY <1>1, <1>2 DEF Line, LineParts
  <2>2. \A i \in 1 .. Len(Line') : i + 0 = i
    BY <2>1
  <2> HIDE DEF Line
  <2> QED BY <2>1, <2>2 DEF Drops
<1>3. CASE /\ Len(wire') = Len(wire) + Size(c)
           /\ \A i \in 1 .. Len(wire) : wire'[i] = wire[i]
           /\ \A i \in 1 .. Size(c) : wire'[Len(wire) + i] = [of |-> c, pos |-> i, last |-> last]
  <2>1. Size(c) \in Nat
    BY <1>1 DEF LineParts
  <2>2. Len(Line') = Len(Line) + Size(c)
    BY <1>1, <1>3, <2>1 DEF LineParts
  <2>3. ASSUME NEW i \in 1 .. Len(Line) PROVE Line'[i] = Line[i]
    <3>1. CASE i <= Len(rx)
      BY <1>1, <3>1 DEF LineParts
    <3>2. CASE i > Len(rx)
      <4> DEFINE k == i - Len(rx)
      <4>1. k \in 1 .. Len(wire) /\ k \in 1 .. Len(wire') /\ Len(rx) + k = i /\ Len(rx') = Len(rx)
        BY <1>1, <1>3, <2>1, <3>2 DEF LineParts
      <4> HIDE DEF k
      <4>2. Line[Len(rx) + k] = wire[k]
        BY <1>1, <4>1 DEF LineParts
      <4>3. Line'[Len(rx') + k] = wire'[k]
        BY <1>1, <4>1 DEF LineParts
      <4>4. wire'[k] = wire[k]
        BY <1>3, <4>1
      <4> HIDE DEF Line
      <4> QED BY <4>1, <4>2, <4>3, <4>4
    <3> QED BY <1>1, <3>1, <3>2 DEF LineParts
  <2>4. ASSUME NEW i \in 1 .. Size(c)
        PROVE  Line'[Len(Line) + i] = [of |-> c, pos |-> i, last |-> last]
    <3> DEFINE k == Len(wire) + i
    <3>1. k \in 1 .. Len(wire') /\ Len(rx') + k = Len(Line) + i
      BY <1>1, <1>3, <2>1 DEF LineParts
    <3>2. wire'[k] = [of |-> c, pos |-> i, last |-> last]
      BY <1>3
    <3> HIDE DEF k
    <3> QED BY <1>1, <3>1, <3>2 DEF LineParts
  <2> QED BY <2>2, <2>3, <2>4 DEF Grows
<1> QED BY <1>2, <1>3, PackageSent

-----------------------------------------------------------------------------
LEMMA StreamDrops ==
    ASSUME TypesInv, StreamInv, NEW k, Drops(k),
           \A c \in 1 .. Len(issued) : issued'[c] = issued[c]
    PROVE  StreamInv'
<1>1. /\ k \in Nat /\ Len(Line) \in Nat /\ Len(Line') = Len(Line) - k /\ Len(Line') \in Nat
      /\ \A i \in 1 .. Len(Line') : Line'[i] = Line[i + k] /\ i + k \in 1 .. Len(Line)
      /\ \A i \in 1 .. Len(Line) : Line[i].of \in 1 .. Len(issued)
      /\ Line' # <<>> => Len(Line') > 0
  <2>1. LineParts
    BY LineFacts
  <2>2. Line' # <<>> => Len(Line') # 0
    BY DEF Line
  <2> HIDE DEF Line
  <2> QED BY <2>1, <2>2 DEF Drops, LineParts
<1>2. \A i \in 1 .. Len(Line) : issued'[Line[i].of] = issued[Line[i].of]
  BY <1>1
<1>3. ASSUME NEW i \in 1 .. Len(Line') PROVE Line'[i].pos <= Length[issued'[Line'[i].of]]
  <2>1. Line'[i] = Line[i + k] /\ i + k \in 1 .. Len(Line)
    BY <1>1
  <2>2. Line[i + k].pos <= Length[issued[Line[i + k].of]]
    BY <2>1 DEF StreamInv, Size
  <2> QED BY <2>1, <2>2, <1>2
<1>4. ASSUME NEW i \in 1 .. Len(Line') - 1 PROVE Follows(Line[i + k], Line[i + k + 1])
  <2>1. i + k \in 1 .. Len(Line) - 1
    <3> HIDE DEF Line
    <3> QED BY <1>1
  <2> QED BY <2>1 DEF StreamInv
<1>5. \A i \in 1 .. Len(Line') - 1 : i \in 1 .. Len(Line') /\ i + 1 \in 1 .. Len(Line') /\ i + 1 + k = i + k + 1
  BY <1>1
<1>6. ASSUME NEW i \in 1 .. Len(Line') - 1 PROVE Follows(Line[i], Line[i + 1])'
  <2>1. Line'[i] = Line[i + k] /\ Line'[i + 1] = Line[i + k + 1]
    BY <1>1, <1>5
  <2>2. issued'[Line[i + k].of] = issued[Line[i + k].of]
    BY <1>1, <1>2, <1>5
  <2> QED BY <1>4, <2>1, <2>2 DEF Follows, Size
<1>7. ASSUME Line' # <<>> PROVE Line'[Len(Line')].pos = Length[issued'[Line'[Len(Line')].of]]
  <2>1. Len(Line') \in 1 .. Len(Line') /\ Len(Line') + k = Len(Line) /\ Len(Line) \in 1 .. Len(Line)
    BY <1>1, <1>7
  <2>2. Line # <<>>
    BY <2>1
  <2>3. Line'[Len(Line')] = Line[Len(Line)]
    BY <1>1, <2>1
  <2> QED BY <1>2, <2>1, <2>2, <2>3 DEF StreamInv, Size
<1> QED BY <1>3, <1>6, <1>7 DEF StreamInv, Size

LEMMA StreamGrows ==
    ASSUME TypesInv, StreamInv, NEW c \in 1 .. Len(issued), NEW last, Grows(c, last),
           UNCHANGED issued
    PROVE  StreamInv'
<1> DEFINE n == Len(Line)
           m == Size(c)
<1>1. n \in Nat /\ m \in Nat \ {0} /\ Len(Line') = n + m
  BY LineFacts DEF LineParts, Grows
<1>2. /\ \A i \in 1 .. n : Line'[i] = Line[i]
      /\ \A i \in 1 .. m : Line'[n + i] = [of |-> c, pos |-> i, last |-> last]
  BY DEF Grows
<1>3. \A d : Size(d)' = Size(d)
  BY DEF Size
<1>4. m = Size(c) /\ (n > 0 => Line # <<>>)
  BY <1>1 DEF Line
<1>5. /\ \A i \in 1 .. n : Line[i].pos <= Size(Line[i].of)
      /\ \A i \in 1 .. n - 1 : Follows(Line[i], Line[i + 1])
      /\ n > 0 => Line[n].pos = Size(Line[n].of)
  BY <1>4 DEF StreamInv
<1> HIDE DEF n, m
<1>6. ASSUME NEW i \in 1 .. Len(Line') PROVE i \in 1 .. n \/ (i - n \in 1 .. m /\ n + (i - n) = i)
  BY <1>1
<1>7. ASSUME NEW i \in 1 .. Len(Line') PROVE Line'[i].pos <= Size(Line'[i].of)
  <2>1. CASE i \in 1 .. n
    BY <1>2, <1>5, <2>1
  <2>2. CASE i - n \in 1 .. m /\ n + (i - n) = i
    <3>1. Line'[i] = [of |-> c, pos |-> i - n, last |-> last]
      BY <1>2, <2>2
    <3> QED BY <1>1, <1>4, <2>2, <3>1
  <2> QED BY <1>6, <2>1, <2>2
<1>8. ASSUME NEW i \in 1 .. Len(Line') - 1 PROVE Follows(Line'[i], Line'[i + 1])
  <2>1. CASE i + 1 \in 1 .. n
    <3>1. i \in 1 .. n /\ i \in 1 .. n - 1
      BY <1>1, <2>1
    <3> QED BY <1>2, <1>5, <2>1, <3>1
  <2>2. CASE i = n
    <3>1. Line'[n] = Line[n] /\ Line[n].pos = Size(Line[n].of)
      BY <1>1, <1>2, <1>5, <2>2
    <3>2. Line'[n + 1] = [of |-> c, pos |-> 1, last |-> last]
      BY <1>1, <1>2
    <3> QED BY <2>2, <3>1, <3>2 DEF Follows
  <2>3. CASE i > n
    <3> DEFINE j == i - n
    <3>1. j \in 1 .. m /\ j + 1 \in 1 .. m /\ n + j = i /\ n + (j + 1) = i + 1 /\ j < m
      BY <1>1, <2>3
    <3>2. /\ Line'[i] = [of |-> c, pos |-> j, last |-> last]
          /\ Line'[i + 1] = [of |-> c, pos |-> j + 1, last |-> last]
      BY <1>2, <3>1
    <3> HIDE DEF j
    <3>3. j # Size(c)
      BY <1>1, <1>4, <3>1
    <3> QED BY <3>2, <3>3 DEF Follows
  <2> QED BY <1>1, <2>1, <2>2, <2>3
<1>9. Line'[n + m].pos = Size(Line'[n + m].of)
  <2>1. m \in 1 .. m
    BY <1>1
  <2>2. Line'[n + m] = [of |-> c, pos |-> m, last |-> last]
    BY <1>2, <2>1
  <2> QED BY <1>4, <2>2
<1> QED BY <1>1, <1>3, <1>7, <1>8, <1>9 DEF StreamInv, Follows

-----------------------------------------------------------------------------
\* The sensor is not given a command a second time.
InboxShrinks ==
    /\ \A i, j \in 1 .. Len(inbox') : inbox'[i] = inbox'[j] => i = j
    /\ \A i \in 1 .. Len(inbox') : \E j \in 1 .. Len(inbox) : inbox'[i] = inbox[j]

LEMMA SameInbox ==
    ASSUME OnceInv, UNCHANGED inbox
    PROVE  InboxShrinks
BY DEF OnceInv, InboxShrinks

LEMMA TailInbox ==
    ASSUME TypesInv, OnceInv, inbox # <<>>, inbox' = Tail(inbox)
    PROVE  /\ InboxShrinks
           /\ \A i \in 1 .. Len(inbox') : inbox'[i] # Head(inbox)
           /\ Head(inbox) \in 1 .. Len(issued)
           /\ 1 \in 1 .. Len(inbox) /\ Head(inbox) = inbox[1]
<1>1. /\ inbox \in Seq(1 .. Len(issued)) /\ Len(inbox) \in Nat \ {0}
      /\ Head(inbox) = inbox[1] /\ Head(inbox) \in 1 .. Len(issued)
      /\ Len(inbox') = Len(inbox) - 1
      /\ \A i \in 1 .. Len(inbox') : inbox'[i] = inbox[i + 1]
  BY HeadTailProperties, EmptySeq DEF TypesInv
<1>2. \A i, j \in 1 .. Len(inbox) : inbox[i] = inbox[j] => i = j
  BY DEF OnceInv
<1>3. 1 \in 1 .. Len(inbox) /\ \A i \in 1 .. Len(inbox') : i + 1 \in 1 .. Len(inbox) /\ i + 1 # 1
  BY <1>1
<1>4. ASSUME NEW i \in 1 .. Len(inbox'), NEW j \in 1 .. Len(inbox'), inbox'[i] = inbox'[j]
      PROVE  i = j
  <2>1. i + 1 = j + 1
    BY <1>1, <1>2, <1>3, <1>4
  <2> QED BY <1>1, <2>1
<1>5. ASSUME NEW i \in 1 .. Len(inbox')
      PROVE  inbox'[i] # Head(inbox) /\ \E j \in 1 .. Len(inbox) : inbox'[i] = inbox[j]
  BY <1>1, <1>2, <1>3
<1> QED BY <1>1, <1>3, <1>4, <1>5 DEF InboxShrinks

LEMMA OnceDrops ==
    ASSUME TypesInv, OnceInv, NEW k, Drops(k), InboxShrinks, sensor' \in {sensor, None},
           UNCHANGED issued
    PROVE  OnceInv'
<1>1. /\ k \in Nat /\ Len(Line) \in Nat /\ Len(Line') = Len(Line) - k
      /\ \A i \in 1 .. Len(Line') : Line'[i] = Line[i + k] /\ i + k \in 1 .. Len(Line)
      /\ \A i \in 1 .. Len(Line) : Line[i].of \in 1 .. Len(issued)
      /\ \A i \in 1 .. Len(inbox) : inbox[i] \in 1 .. Len(issued)
      /\ Len(issued) \in Nat
  <2>1. LineParts /\ inbox \in Seq(1 .. Len(issued)) /\ issued \in Seq(Kinds)
    BY LineFacts DEF TypesInv, TypeOK
  <2>2. \A i \in 1 .. Len(inbox) : inbox[i] \in 1 .. Len(issued)
    BY <2>1
  <2> HIDE DEF Line
  <2> QED BY <2>1, <2>2 DEF Drops, LineParts
<1> HIDE DEF Line
<1>2. \A i, j \in 1 .. Len(inbox') : inbox'[i] = inbox'[j] => i = j
  BY DEF InboxShrinks
<1>3. ASSUME NEW i \in 1 .. Len(inbox')
      PROVE  inbox'[i] # sensor' /\ \A l \in 1 .. Len(Line') : Line'[l].of # inbox'[i]
  <2>1. PICK j \in 1 .. Len(inbox) : inbox'[i] = inbox[j]
    BY DEF InboxShrinks
  <2>2. inbox[j] # sensor /\ inbox[j] # None /\ \A l \in 1 .. Len(Line) : Line[l].of # inbox[j]
    BY <1>1 DEF OnceInv, None
  <2> QED BY <1>1, <2>1, <2>2
<1>4. sensor' # None => issued'[sensor'] # "ack"
  BY DEF OnceInv
<1>5. ASSUME NEW l \in 1 .. Len(Line')
      PROVE  /\ Line'[l].last => sensor' # Line'[l].of
             /\ issued'[Line'[l].of] = "ack" => Line'[l].last
  <2>1. Line'[l] = Line[l + k] /\ l + k \in 1 .. Len(Line) /\ Line[l + k].of # None
    BY <1>1 DEF None
  <2>2. /\ Line[l + k].last => sensor # Line[l + k].of
        /\ issued[Line[l + k].of] = "ack" => Line[l + k].last
    BY <2>1 DEF OnceInv
  <2> QED BY <2>1, <2>2
<1>6. ASSUME NEW i \in 1 .. Len(Line'), NEW l \in 1 .. Len(Line'),
             i < l, Line'[i].last, Line'[l].of = Line'[i].of
      PROVE  Line'[l].pos = Line'[i].pos + (l - i)
  <2>1. /\ Line'[i] = Line[i + k] /\ i + k \in 1 .. Len(Line)
        /\ Line'[l] = Line[l + k] /\ l + k \in 1 .. Len(Line)
    BY <1>1, <1>6
  <2>2. i + k < l + k /\ (l + k) - (i + k) = l - i
    BY <1>1, <1>6
  <2> QED BY <2>1, <2>2, <1>6 DEF OnceInv
<1> QED BY <1>2, <1>3, <1>4, <1>5, <1>6 DEF OnceInv

LEMMA OnceGrows ==
    ASSUME TypesInv, OnceInv, NEW c \in 1 .. Len(issued), NEW last \in BOOLEAN, Grows(c, last),
           InboxShrinks, \A i \in 1 .. Len(inbox') : inbox'[i] # c,
           sensor' \in {sensor, None}, last => sensor' # c,
           issued[c] = "ack" => last,
           \A i \in 1 .. Len(Line) : Line[i].of = c => ~Line[i].last,
           UNCHANGED issued
    PROVE  OnceInv'
<1> DEFINE n == Len(Line)
           m == Size(c)
<1>1. /\ n \in Nat /\ m \in Nat \ {0} /\ Len(Line') = n + m
      /\ \A i \in 1 .. n : Line'[i] = Line[i] /\ Line[i].of \in 1 .. Len(issued)
      /\ \A i \in 1 .. m : Line'[n + i] = [of |-> c, pos |-> i, last |-> last]
      /\ \A i \in 1 .. Len(inbox) : inbox[i] \in 1 .. Len(issued)
      /\ Len(issued) \in Nat
  <2>1. LineParts /\ inbox \in Seq(1 .. Len(issued)) /\ issued \in Seq(Kinds)
    BY LineFacts DEF TypesInv, TypeOK
  <2>2. \A i \in 1 .. Len(inbox) : inbox[i] \in 1 .. Len(issued)
    BY <2>1
  <2> QED BY <2>1, <2>2 DEF Grows, LineParts
<1>u. \A i \in 1 .. n : /\ Line[i].last => sensor # Line[i].of
                        /\ issued[Line[i].of] = "ack" => Line[i].last
                        /\ Line[i].of = c => ~Line[i].last
  BY DEF OnceInv
<1>v. \A i, l \in 1 .. n : i < l /\ Line[i].last /\ Line[l].of = Line[i].of
                              => Line[l].pos = Line[i].pos + (l - i)
  BY DEF OnceInv
<1>w. \A i \in 1 .. Len(inbox) :
          inbox[i] # sensor /\ inbox[i] # None /\ \A l \in 1 .. n : Line[l].of # inbox[i]
  BY <1>1 DEF OnceInv, None
<1> HIDE DEF n, m
\* A unit is an old one, or one of the package.
<1>2. ASSUME NEW i \in 1 .. Len(Line')
      PROVE  \/ i \in 1 .. n /\ Line'[i] = Line[i]
             \/ i > n /\ i - n \in 1 .. m /\ Line'[i] = [of |-> c, pos |-> i - n, last |-> last]
  <2>1. CASE i \in 1 .. n
    BY <1>1, <2>1
  <2>2. CASE i \notin 1 .. n
    <3>1. i > n /\ i - n \in 1 .. m /\ n + (i - n) = i
      BY <1>1, <2>2
    <3> QED BY <1>1, <3>1
  <2> QED BY <2>1, <2>2
<1>3. \A i, j \in 1 .. Len(inbox') : inbox'[i] = inbox'[j] => i = j
  BY DEF InboxShrinks
<1>4. ASSUME NEW i \in 1 .. Len(inbox')
      PROVE  inbox'[i] # sensor' /\ \A l \in 1 .. Len(Line') : Line'[l].of # inbox'[i]
  <2>1. PICK j \in 1 .. Len(inbox) : inbox'[i] = inbox[j]
    BY DEF InboxShrinks
  <2>2. inbox[j] # sensor /\ inbox[j] # None /\ \A l \in 1 .. n : Line[l].of # inbox[j]
    BY <1>w
  <2>3. inbox'[i] # c /\ inbox'[i] # sensor'
    BY <2>1, <2>2
  <2>4. ASSUME NEW l \in 1 .. Len(Line') PROVE Line'[l].of # inbox'[i]
    <3>1. CASE l \in 1 .. n /\ Line'[l] = Line[l]
      BY <2>1, <2>2, <3>1
    <3>2. CASE Line'[l] = [of |-> c, pos |-> l - n, last |-> last]
      BY <2>3, <3>2
    <3> QED BY <1>2, <3>1, <3>2
  <2> QED BY <2>3, <2>4
<1>5. sensor' # None => issued'[sensor'] # "ack"
  BY DEF OnceInv
<1>6. ASSUME NEW l \in 1 .. Len(Line')
      PROVE  /\ Line'[l].last => sensor' # Line'[l].of
             /\ issued'[Line'[l].of] = "ack" => Line'[l].last
  <2>1. CASE l \in 1 .. n /\ Line'[l] = Line[l]
    <3>1. Line[l].of # None
      BY <1>1, <2>1 DEF None
    <3> QED BY <2>1, <3>1, <1>u
  <2>2. CASE Line'[l] = [of |-> c, pos |-> l - n, last |-> last]
    BY <2>2
  <2> QED BY <1>2, <2>1, <2>2
<1>7. ASSUME NEW i \in 1 .. Len(Line'), NEW l \in 1 .. Len(Line'),
             i < l, Line'[i].last, Line'[l].of = Line'[i].of
      PROVE  Line'[l].pos = Line'[i].pos + (l - i)
  <2>1. CASE l \in 1 .. n /\ Line'[l] = Line[l]
    <3>1. i \in 1 .. n
      BY <1>1, <1>7, <2>1
    <3>2. Line'[i] = Line[i]
      BY <1>1, <3>1
    <3> QED BY <1>7, <1>v, <2>1, <3>1, <3>2
  <2>2. CASE l > n /\ l - n \in 1 .. m /\ Line'[l] = [of |-> c, pos |-> l - n, last |-> last]
    <3>1. CASE i \in 1 .. n /\ Line'[i] = Line[i]
      BY <1>7, <1>u, <2>2, <3>1
    <3>2. CASE i - n \in 1 .. m /\ Line'[i] = [of |-> c, pos |-> i - n, last |-> last]
      <4>1. l - n = (i - n) + (l - i)
        BY <1>1, <1>7
      <4> QED BY <2>2, <3>2, <4>1
    <3> QED BY <1>2, <3>1, <3>2
  <2> QED BY <1>2, <2>1, <2>2
<1> QED BY <1>3, <1>4, <1>5, <1>6, <1>7 DEF OnceInv

\* What the callers do, but for sending a command.
CallersMove ==
    \/ Command \/ AutoEnroll \/ AutoIdentify \/ SetInEnrollment \/ task_enroll
    \/ \E p \in Callers : Flush(p) \/ Lock(p) \/ LockTimeout(p) \/ receiveAndCheckPackage(p)
                          \/ ReadTimeout(p)

LEMMA SameLine ==
    ASSUME TypesInv, UNCHANGED <<rx, wire>>
    PROVE  Drops(0)
<1>1. Line' = Line /\ Len(Line) \in Nat
  BY LineFacts DEF Line, LineParts
<1>2. \A i \in 1 .. Len(Line') : i + 0 = i
  BY <1>1
<1> HIDE DEF Line
<1> QED BY <1>1, <1>2 DEF Drops

LEMMA FlushedLine ==
    ASSUME TypesInv, TypesInv', UNCHANGED wire, rx' = <<>>
    PROVE  Drops(Len(rx))
<1>1. Len(rx) \in Nat /\ Len(rx') = 0
  BY EmptySeq DEF TypesInv, TypeOK
<1>2. \A i \in 1 .. Len(rx') : rx'[i] = rx[i + Len(rx)]
  BY <1>1
<1> QED BY <1>1, <1>2, LineDropped

LEMMA TakenLine ==
    ASSUME TypesInv, TypesInv', UNCHANGED wire, NEW n \in Nat, n <= Len(rx),
           rx' = SubSeq(rx, n + 1, Len(rx))
    PROVE  Drops(n)
<1>1. rx \in Seq(Units) /\ Len(rx) \in Nat
  BY DEF TypesInv, TypeOK
<1>2. \A i \in n + 1 .. Len(rx) : rx[i] \in Units
  BY <1>1
<1>3. /\ Len(SubSeq(rx, n + 1, Len(rx)))
             = IF n + 1 <= Len(rx) THEN Len(rx) - (n + 1) + 1 ELSE 0
      /\ \A i \in 1 .. Len(rx) - (n + 1) + 1 : SubSeq(rx, n + 1, Len(rx))[i] = rx[n + 1 + i - 1]
  BY <1>1, <1>2, SubSeqProperties
<1>4. Len(rx') = Len(rx) - n
  BY <1>1, <1>3
<1>5. ASSUME NEW i \in 1 .. Len(rx') PROVE rx'[i] = rx[i + n]
  <2>1. i \in 1 .. Len(rx) - (n + 1) + 1 /\ n + 1 + i - 1 = i + n
    BY <1>1, <1>4
  <2> QED BY <1>3, <2>1
<1> QED BY <1>1, <1>4, <1>5, LineDropped

LEMMA CallersLine ==
    ASSUME TypesInv, TypesInv', CallersMove
    PROVE  (\E k : Drops(k)) /\ UNCHANGED <<inbox, sensor, wire, issued>>
<1> USE DEF lineVars
<1>1. CASE Command \/ AutoEnroll \/ AutoIdentify \/ SetInEnrollment \/ task_enroll
           \/ \E p \in Callers : Lock(p) \/ LockTimeout(p)
  <2>1. UNCHANGED <<rx, wire, inbox, sensor, issued>>
    BY <1>1 DEF Command, AutoEnroll, AutoIdentify, Starts, SetInEnrollment, task_enroll, Lock,
                LockTimeout, Fails
  <2> QED BY <2>1, SameLine
<1>2. CASE \E p \in Callers : Flush(p) \/ ReadTimeout(p)
  <2>1. rx' = <<>> /\ UNCHANGED <<wire, inbox, sensor, issued>>
    BY <1>2 DEF Flush, ReadTimeout, Fails
  <2> QED BY <2>1, FlushedLine
<1>3. ASSUME NEW p \in Callers, receiveAndCheckPackage(p)
      PROVE  (\E k : Drops(k)) /\ UNCHANGED <<inbox, sensor, wire, issued>>
  <2>1. /\ Len(rx) >= Expected(p) /\ rx' = SubSeq(rx, Expected(p) + 1, Len(rx))
        /\ UNCHANGED <<inbox, sensor, wire, issued>>
    BY <1>3 DEF receiveAndCheckPackage, Received, Fails
  <2>2. Expected(p) \in Nat /\ Len(rx) \in Nat
    BY LengthAssumption DEF Expected, TypesInv, TypeOK
  <2>3. Expected(p) <= Len(rx)
    BY <2>1, <2>2
  <2> QED BY <2>1, <2>2, <2>3, TakenLine
<1> QED BY <1>1, <1>2, <1>3 DEF CallersMove

LEMMA OnceWrites ==
    ASSUME TypesInv, TypesInv', OnceInv, NEW p \in Callers, WriteCommand(p)
    PROVE  /\ OnceInv' /\ Drops(0) /\ Line' = Line /\ UNCHANGED sensor
           /\ issued \in Seq(Kinds) /\ Len(issued) \in Nat /\ Len(issued') = Len(issued) + 1
           /\ \A c \in 1 .. Len(issued) : issued'[c] = issued[c]
           /\ issued'[Len(issued) + 1] = job[p]
           /\ Len(inbox') = Len(inbox) + 1 /\ Len(inbox) \in Nat
           /\ \A i \in 1 .. Len(inbox) : inbox'[i] = inbox[i]
           /\ inbox'[Len(inbox) + 1] = Len(issued) + 1
<1>1. /\ issued \in Seq(Kinds) /\ job[p] \in Kinds /\ inbox \in Seq(1 .. Len(issued))
      /\ Len(issued) \in Nat /\ sensor \in 0 .. Len(issued) /\ Len(inbox) \in Nat
  <2>1. /\ issued \in Seq(Kinds) /\ job \in [Callers -> Kinds]
        /\ inbox \in Seq(1 .. Len(issued)) /\ sensor \in 0 .. Len(issued)
    BY DEF TypesInv, TypeOK
  <2>2. Len(issued) \in Nat /\ Len(inbox) \in Nat
    BY <2>1
  <2> QED BY <2>1, <2>2
<1>2. /\ issued' = Append(issued, job[p]) /\ inbox' = Append(inbox, Len(issued'))
      /\ UNCHANGED <<sensor, wire, rx>>
  BY DEF WriteCommand
<1>3. /\ Len(issued') = Len(issued) + 1 /\ \A c \in 1 .. Len(issued) : issued'[c] = issued[c]
      /\ issued'[Len(issued) + 1] = job[p]
  BY <1>1, <1>2, AppendProperties
<1>4. inbox \in Seq(Nat) /\ Len(issued') \in Nat
  <2>1. 1 .. Len(issued) \subseteq Nat
    OBVIOUS
  <2> QED BY <1>1, <1>3, <2>1
<1>5. /\ Len(inbox') = Len(inbox) + 1 /\ \A i \in 1 .. Len(inbox) : inbox'[i] = inbox[i]
      /\ inbox'[Len(inbox) + 1] = Len(issued) + 1
  BY <1>2, <1>3, <1>4, AppendProperties
<1>6. Line' = Line /\ Drops(0)
  BY <1>2, SameLine DEF Line
<1>7. \A i \in 1 .. Len(Line) : Line[i].of \in 1 .. Len(issued)
  BY LineFacts DEF LineParts
<1>8. \A i \in 1 .. Len(inbox') : \/ i \in 1 .. Len(inbox) /\ inbox'[i] = inbox[i]
                                  \/ i = Len(inbox) + 1 /\ inbox'[i] = Len(issued) + 1
  BY <1>1, <1>5
<1>9. \A i \in 1 .. Len(inbox) : inbox[i] \in 1 .. Len(issued)
  BY <1>1
<1> HIDE DEF Line
<1>10. ASSUME NEW i \in 1 .. Len(inbox'), NEW j \in 1 .. Len(inbox'), inbox'[i] = inbox'[j]
       PROVE  i = j
  <2>1. \A k \in 1 .. Len(inbox) : inbox[k] # Len(issued) + 1
    BY <1>1, <1>9
  <2>2. \A k, l \in 1 .. Len(inbox) : inbox[k] = inbox[l] => k = l
    BY DEF OnceInv
  <2> QED BY <1>8, <1>10, <2>1, <2>2
<1>11. ASSUME NEW i \in 1 .. Len(inbox')
       PROVE  inbox'[i] # sensor' /\ \A l \in 1 .. Len(Line') : Line'[l].of # inbox'[i]
  <2>1. CASE i \in 1 .. Len(inbox) /\ inbox'[i] = inbox[i]
    BY <1>2, <1>6, <2>1 DEF OnceInv
  <2>2. CASE inbox'[i] = Len(issued) + 1
    <3>1. sensor # Len(issued) + 1 /\ \A l \in 1 .. Len(Line) : Line[l].of # Len(issued) + 1
      BY <1>1, <1>7
    <3> QED BY <1>2, <1>6, <2>2, <3>1
  <2> QED BY <1>8, <2>1, <2>2
<1>12. sensor' # None => issued'[sensor'] # "ack"
  <2>1. sensor # None => sensor \in 1 .. Len(issued)
    BY <1>1 DEF None
  <2> QED BY <1>2, <1>3, <2>1 DEF OnceInv
<1>13. \A l \in 1 .. Len(Line') : /\ Line'[l].last => sensor' # Line'[l].of
                                  /\ issued'[Line'[l].of] = "ack" => Line'[l].last
  BY <1>2, <1>3, <1>6, <1>7 DEF OnceInv
<1>14. OnceInv'
  BY <1>6, <1>10, <1>11, <1>12, <1>13 DEF OnceInv
<1> QED BY <1>1, <1>2, <1>3, <1>5, <1>6, <1>14

LEMMA StreamStep ==
    TypesInv /\ StreamInv /\ OnceInv /\ [Next]_vars => StreamInv' /\ OnceInv'
<1> SUFFICES ASSUME TypesInv, StreamInv, OnceInv, [Next]_vars PROVE StreamInv' /\ OnceInv'
  OBVIOUS
<1>t. TypesInv'
  BY TypesStep
<1> USE DEF callerVars, lineVars
<1>1. CASE CallersMove
  <2>1. PICK k : Drops(k)
    BY <1>1, <1>t, CallersLine
  <2>2. UNCHANGED <<inbox, sensor, issued>>
    BY <1>1, <1>t, CallersLine
  <2> QED BY <2>1, <2>2, StreamDrops, OnceDrops, SameInbox
<1>2. CASE UNCHANGED vars
  BY <1>2, SameLine, StreamDrops, OnceDrops, SameInbox DEF vars
<1>3. ASSUME NEW p \in Callers, WriteCommand(p) PROVE StreamInv' /\ OnceInv'
  BY <1>3, <1>t, OnceWrites, StreamDrops
<1>4. CASE Arrive
  <2>1. Line' = Line /\ UNCHANGED <<inbox, sensor, issued>>
    BY <1>4, <1>t, LineArrives DEF Arrive
  <2> QED BY <2>1 DEF StreamInv, OnceInv, Follows, Size
<1>5. CASE SensorTakes
  <2> DEFINE c == Head(inbox)
  <2>1. /\ inbox # <<>> /\ inbox' = Tail(inbox) /\ UNCHANGED <<rx, issued>>
        /\ \/ issued[c] = "ack" /\ Sends(c, TRUE) /\ sensor' \in {sensor, None}
           \/ issued[c] # "ack" /\ sensor' = c /\ UNCHANGED wire
    BY <1>5 DEF SensorTakes
  <2>2. /\ InboxShrinks /\ \A i \in 1 .. Len(inbox') : inbox'[i] # c
        /\ c \in 1 .. Len(issued) /\ 1 \in 1 .. Len(inbox) /\ c = inbox[1]
    BY <2>1, TailInbox
  <2> HIDE DEF c
  <2>3. c # sensor /\ \A l \in 1 .. Len(Line) : Line[l].of # c
    BY <2>2 DEF OnceInv
  <2>4. CASE issued[c] = "ack" /\ Sends(c, TRUE) /\ sensor' \in {sensor, None}
    <3>1. c # None /\ TRUE \in BOOLEAN
      BY <2>2 DEF None
    <3>2. CASE Drops(0)
      BY <2>1, <2>2, <2>4, <3>2, StreamDrops, OnceDrops
    <3>3. CASE Grows(c, TRUE)
      <4>1. StreamInv'
        BY <2>1, <2>2, <3>3, StreamGrows
      <4>2. sensor' # c /\ \A l \in 1 .. Len(Line) : Line[l].of = c => ~Line[l].last
        BY <2>3, <2>4, <3>1
      <4>3. OnceInv'
        BY <2>1, <2>2, <2>4, <3>1, <3>3, <4>2, OnceGrows
      <4> QED BY <4>1, <4>3
    <3> QED BY <1>t, <2>1, <2>2, <2>4, <3>1, <3>2, <3>3, LineGrows
  <2>5. CASE issued[c] # "ack" /\ sensor' = c /\ UNCHANGED wire
    <3>1. Line' = Line /\ Drops(0)
      BY <2>1, <2>5, SameLine DEF Line
    <3>2. StreamInv'
      BY <2>1, <3>1, StreamDrops
    <3>3. \A i \in 1 .. Len(inbox') :
              inbox'[i] # sensor' /\ \A l \in 1 .. Len(Line') : Line'[l].of # inbox'[i]
      BY <2>2, <2>5, <3>1 DEF OnceInv, InboxShrinks
    <3>4. \A i, j \in 1 .. Len(inbox') : inbox'[i] = inbox'[j] => i = j
      BY <2>2 DEF InboxShrinks
    <3>5. \A l \in 1 .. Len(Line') : /\ Line'[l].last => sensor' # Line'[l].of
                                     /\ issued'[Line'[l].of] = "ack" => Line'[l].last
      BY <2>1, <2>3, <2>5, <3>1 DEF OnceInv
    <3>6. sensor' # None => issued'[sensor'] # "ack"
      BY <2>1, <2>5
    <3>7. OnceInv'
      BY <2>1, <2>5, <3>1, <3>3, <3>4, <3>5, <3>6 DEF OnceInv
    <3> QED BY <3>2, <3>7
  <2> QED BY <2>1, <2>4, <2>5
<1>6. CASE SensorProgress \/ SensorEnds
  <2>1. /\ sensor # None /\ UNCHANGED <<inbox, rx, issued>>
        /\ \/ Sends(sensor, FALSE) /\ sensor' \in {sensor, None}
           \/ Sends(sensor, TRUE) /\ sensor' = None
    BY <1>6 DEF SensorProgress, SensorEnds
  <2>2. sensor \in 1 .. Len(issued)
    BY <2>1 DEF TypesInv, TypeOK, None
  <2>3. PICK last \in BOOLEAN : Sends(sensor, last) /\ sensor' \in {sensor, None}
                                /\ (last => sensor' = None)
    BY <2>1
  <2>4. CASE Drops(0)
    BY <2>1, <2>3, <2>4, SameInbox, StreamDrops, OnceDrops
  <2>5. CASE Grows(sensor, last)
    <3>1. StreamInv'
      BY <2>1, <2>2, <2>5, StreamGrows
    <3>2. /\ \A i \in 1 .. Len(inbox') : inbox'[i] # sensor
          /\ issued[sensor] # "ack"
          /\ \A l \in 1 .. Len(Line) : Line[l].of = sensor => ~Line[l].last
          /\ last => sensor' # sensor
      BY <2>1, <2>3 DEF OnceInv
    <3>3. OnceInv'
      BY <2>1, <2>2, <2>3, <2>5, <3>2, SameInbox, OnceGrows
    <3> QED BY <3>1, <3>3
  <2> QED BY <1>t, <2>1, <2>2, <2>3, <2>4, <2>5, LineGrows
<1> QED BY <1>1, <1>2, <1>3, <1>4, <1>5, <1>6 DEF Next, CallerStep, task_detect, CallersMove

-----------------------------------------------------------------------------
\* What is accepted is one whole package, of a command of the caller's kind:
\* the kinds are told apart by their lengths.
LEMMA Accepted ==
    ASSUME TypesInv, NEW p \in Callers, Accepts(p)
    PROVE  /\ Expected(p) \in Nat \ {0} /\ Expected(p) <= Len(rx) /\ Len(rx) \in Nat
           /\ rx[1].of \in 1 .. Len(issued) /\ Live(rx[1].of) /\ issued[rx[1].of] = job[p]
           /\ Size(rx[1].of) = Expected(p)
           /\ 1 \in 1 .. Len(Line)
           /\ Line[1] = rx[1] /\ rx[1].pos = 1
           /\ \A i \in 1 .. Expected(p) : /\ Taken(p)[i] = rx[i] /\ Line[i] = rx[i]
                                          /\ i \in 1 .. Len(Line)
                                          /\ rx[i].of = rx[1].of /\ rx[i].pos = i
<1> DEFINE n == Expected(p)
<1>1. /\ n \in Nat \ {0} /\ Len(rx) \in Nat /\ rx \in Seq(Units)
      /\ job[p] \in Kinds /\ LineParts
  <2>1. job[p] \in Kinds /\ rx \in Seq(Units)
    BY DEF TypesInv, TypeOK
  <2>2. n \in Nat \ {0}
    BY <2>1, LengthAssumption DEF Expected
  <2> QED BY <2>1, <2>2, LineFacts DEF LineParts
<1>2. n <= Len(rx) /\ Checked(Taken(p))
  <2>1. Len(rx) >= n
    BY DEF Accepts, Received
  <2> QED BY <1>1, <2>1 DEF Accepts
<1>3. Taken(p) = SubSeq(rx, 1, n)
  BY DEF Taken
<1> HIDE DEF n
<1>4. \A i \in 1 .. n : i \in 1 .. Len(rx) /\ rx[i] \in Units /\ i \in 1 .. Len(Line)
  <2>1. \A i \in 1 .. n : i \in 1 .. Len(rx) /\ i \in 1 .. Len(Line)
    BY <1>1, <1>2 DEF LineParts
  <2> QED BY <1>1, <2>1
<1>5. /\ Len(SubSeq(rx, 1, n)) = IF 1 <= n THEN n - 1 + 1 ELSE 0
      /\ \A i \in 1 .. n - 1 + 1 : SubSeq(rx, 1, n)[i] = rx[1 + i - 1]
  BY <1>1, <1>4, SubSeqProperties
<1>6. /\ Len(Taken(p)) = n
      /\ \A i \in 1 .. n : Taken(p)[i] = rx[i]
  <2>1. n - 1 + 1 = n /\ 1 <= n /\ \A i \in 1 .. n : 1 + i - 1 = i
    BY <1>1
  <2> QED BY <1>3, <1>5, <2>1
<1>7. 1 \in 1 .. n
  BY <1>1
<1>8. \A i \in 1 .. n : rx[i].of = rx[1].of /\ rx[i].pos = i /\ Size(rx[i].of) = n
  BY <1>2, <1>6, <1>7 DEF Checked, Size
<1>9. /\ \A i \in 1 .. n : Line[i] = rx[i]
      /\ Line[1].of \in 1 .. Len(issued)
  BY <1>1, <1>4, <1>7 DEF LineParts
<1>10. issued[rx[1].of] = job[p]
  <2>1. Length[issued[rx[1].of]] = Length[job[p]] /\ issued[rx[1].of] \in Kinds
    BY <1>1, <1>7, <1>8, <1>9 DEF Size, n, Expected, LineParts
  <2> QED BY <1>1, <2>1, LengthAssumption
<1>11. Live(rx[1].of)
  BY <1>4, <1>7, <1>9 DEF Live
<1> QED BY <1>1, <1>2, <1>4, <1>6, <1>7, <1>8, <1>9, <1>10, <1>11 DEF n

LEMMA OwnAnswer ==
    ASSUME TypesInv, AnswersInv, NEW p \in Callers, Accepts(p), Kept(job[p])
    PROVE  rx[1].of = waiting[p]
<1> DEFINE c == rx[1].of
<1>1. c \in 1 .. Len(issued) /\ Live(c) /\ issued[c] = job[p]
  BY Accepted
<1> HIDE DEF c
<1>2. Awaited(c)
  BY <1>1 DEF AnswersInv
<1>3. /\ pc[p] = "read" /\ waiting[p] \in 1 .. Len(issued) /\ issued[waiting[p]] = job[p]
      /\ job["httpd"] \in {"ack", "enroll"} /\ job["task"] \in {"identify", "enroll"}
      /\ job["httpd"] = "enroll" => pc["httpd"] \notin {"lock", "read"}
      /\ Len(issued) \in Nat
      /\ \A q \in Callers : Waits(q) => waiting[q] \in 1 .. Len(issued) /\ issued[waiting[q]] = job[q]
  BY DEF Accepts, Received, TypesInv, TypeOK, Waits
<1>4. CASE job[p] = "enroll"
  <2>1. p = "task" /\ Newest(waiting[p]) /\ Newest(c)
    BY <1>1, <1>2, <1>3, <1>4 DEF Callers, AnswersInv, Waits, Awaited
  <2>2. c <= waiting[p] /\ waiting[p] <= c
    BY <1>1, <1>3, <1>4, <2>1 DEF Newest
  <2>3. c \in Nat /\ waiting[p] \in Nat
    BY <1>1, <1>3
  <2> QED BY <2>2, <2>3 DEF c
<1>5. CASE job[p] # "enroll"
  <2>1. PICK q \in Callers : Waits(q) /\ waiting[q] = c
    BY <1>1, <1>2, <1>5 DEF Awaited
  <2>2. job[q] = job[p]
    BY <1>1, <1>3, <2>1
  <2>3. q = p
    BY <1>3, <1>5, <2>2 DEF Callers
  <2> QED BY <2>1, <2>3 DEF c
<1> QED BY <1>4, <1>5

LEMMA LastTaken ==
    ASSUME TypesInv, StreamInv, OnceInv, NEW p \in Callers, Accepts(p), rx[1].last,
           Drops(Expected(p)), UNCHANGED <<inbox, sensor>>, NEW c, c = rx[1].of
    PROVE  ~Live(c)'
<1> DEFINE n == Expected(p)
<1>1. /\ n \in Nat \ {0} /\ 1 \in 1 .. Len(Line) /\ Size(c) = n
      /\ Line[1].last /\ Line[1].of = c /\ Line[1].pos = 1 /\ Len(Line) \in Nat
  BY Accepted, LineFacts DEF LineParts
<1>2. sensor # c /\ \A i \in 1 .. Len(inbox) : inbox[i] # c
  BY <1>1 DEF OnceInv
<1>3. /\ Len(Line') = Len(Line) - n
      /\ \A i \in 1 .. Len(Line') : Line'[i] = Line[i + n]
  BY DEF Drops
<1> HIDE DEF n, Line
<1>4. ASSUME NEW i \in 1 .. Len(Line'), Line'[i].of = c PROVE FALSE
  <2>1. i + n \in 1 .. Len(Line) /\ 1 < i + n /\ 1 + ((i + n) - 1) = i + n /\ ~(i + n <= n)
    BY <1>1, <1>3
  <2>2. Line[i + n].of = c
    BY <1>3, <1>4
  <2>3. Line[i + n].pos = i + n
    BY <1>1, <2>1, <2>2 DEF OnceInv
  <2>4. Line[i + n].pos <= n
    BY <1>1, <2>1, <2>2 DEF StreamInv
  <2> QED BY <2>1, <2>3, <2>4
<1> QED BY <1>2, <1>4 DEF Live

LEMMA LiveDrops ==
    ASSUME TypesInv, NEW k, Drops(k), InboxShrinks, sensor' \in {sensor, None},
           NEW c \in 1 .. Len(issued), Live(c)'
    PROVE  Live(c)
<1>1. \A i \in 1 .. Len(Line') : Line'[i] = Line[i + k] /\ i + k \in 1 .. Len(Line)
  <2>1. Len(Line) \in Nat
    BY LineFacts DEF LineParts
  <2> QED BY <2>1 DEF Drops
<1>2. c # None
  BY DEF None, TypesInv, TypeOK
<1> HIDE DEF Line
<1>3. CASE \E i \in 1 .. Len(inbox') : inbox'[i] = c
  BY <1>3 DEF Live, InboxShrinks
<1>4. CASE sensor' = c
  BY <1>2, <1>4 DEF Live
<1>5. CASE \E i \in 1 .. Len(Line') : Line'[i].of = c
  <2>1. PICK i \in 1 .. Len(Line') : Line'[i].of = c
    BY <1>5
  <2>2. i + k \in 1 .. Len(Line) /\ Line[i + k].of = c
    BY <1>1, <2>1
  <2> QED BY <2>2 DEF Live
<1> QED BY <1>3, <1>4, <1>5 DEF Live

LEMMA LiveGrows ==
    ASSUME TypesInv, NEW d \in 1 .. Len(issued), NEW last, Grows(d, last), InboxShrinks,
           sensor' \in {sensor, None}, Live(d), NEW c \in 1 .. Len(issued), Live(c)'
    PROVE  Live(c)
<1>1. ASSUME NEW i \in 1 .. Len(Line')
      PROVE  (i \in 1 .. Len(Line) /\ Line'[i] = Line[i]) \/ Line'[i].of = d
  <2>1. Len(Line) \in Nat /\ Size(d) \in Nat
    BY LineFacts, LengthAssumption DEF LineParts, Size, TypesInv, TypeOK
  <2> HIDE DEF Line, Size
  <2>2. /\ Len(Line') = Len(Line) + Size(d)
        /\ \A j \in 1 .. Len(Line) : Line'[j] = Line[j]
        /\ \A j \in 1 .. Size(d) : Line'[Len(Line) + j] = [of |-> d, pos |-> j, last |-> last]
    BY DEF Grows
  <2>3. CASE i > Len(Line)
    <3>1. i - Len(Line) \in 1 .. Size(d) /\ Len(Line) + (i - Len(Line)) = i
      BY <2>1, <2>2, <2>3
    <3>2. Line'[i] = [of |-> d, pos |-> i - Len(Line), last |-> last]
      BY <2>2, <3>1
    <3> QED BY <3>2
  <2>4. CASE i <= Len(Line)
    BY <2>1, <2>2, <2>4
  <2> QED BY <2>1, <2>3, <2>4
<1>2. c # None
  BY DEF None, TypesInv, TypeOK
<1> HIDE DEF Line
<1>3. CASE \E i \in 1 .. Len(Line') : Line'[i].of = c
  BY <1>1, <1>3 DEF Live
<1> QED BY <1>2, <1>3 DEF Live, InboxShrinks

\* Nobody loses what it waits for, but what has been read to its end or is
\* given up on.
LEMMA AnswersKept ==
    ASSUME AnswersInv, UNCHANGED issued, abandoned \subseteq abandoned',
           \A c \in 1 .. Len(issued) : Live(c)' => Live(c),
           \A c \in 1 .. Len(issued) : Live(c)' /\ Kept(issued[c])' /\ Awaited(c) => Awaited(c)'
    PROVE  \A c \in 1 .. Len(issued') : Live(c)' /\ Kept(issued[c])' => Awaited(c)'
<1> SUFFICES ASSUME NEW c \in 1 .. Len(issued), Live(c)', Kept(issued[c])' PROVE Awaited(c)'
  OBVIOUS
<1>1. Live(c)
  OBVIOUS
<1>2. Kept(issued[c])
  BY DEF Kept
<1>3. Awaited(c)
  BY <1>1, <1>2 DEF AnswersInv
<1> QED BY <1>3

LEMMA AwaitedOn ==
    ASSUME UNCHANGED issued, NEW c, Awaited(c),
           \A q \in Callers : Waits(q) => Waits(q)' /\ waiting'[q] = waiting[q],
           isInEnrollment \/ pc["httpd"] = "flag" => isInEnrollment' \/ pc'["httpd"] = "flag"
    PROVE  Awaited(c)'
<1>1. CASE issued[c] = "enroll"
  BY <1>1 DEF Awaited, Newest
<1>2. CASE issued[c] # "enroll"
  BY <1>2 DEF Awaited
<1> QED BY <1>1, <1>2

LEMMA NewestEnroll ==
    ASSUME TypesInv, task_enroll
    PROVE  waiting'["task"] \in 1 .. Len(issued) /\ Newest(waiting'["task"])
<1> DEFINE enrolls == {k \in 1 .. Len(issued) : issued[k] = "enroll"}
           c == Max(enrolls)
<1>1. isInEnrollment /\ waiting' = [waiting EXCEPT !["task"] = c] /\ Len(issued) \in Nat
      /\ waiting \in [Callers -> 0 .. Len(issued)]
      /\ (isInEnrollment => \E i \in 1 .. Len(issued) : issued[i] = "enroll")
  BY DEF task_enroll, TypesInv, TypeOK
<1>2. enrolls \subseteq 1 .. Len(issued) /\ enrolls # {}
  BY <1>1
<1>3. c \in enrolls /\ \A k \in enrolls : k <= c
  <2> HIDE DEF enrolls
  <2> QED BY <1>1, <1>2, MaxOfBounded
<1>4. waiting'["task"] = c
  <2> HIDE DEF c
  <2> QED BY <1>1 DEF Callers
<1>5. c \in 1 .. Len(issued) /\ \A k \in 1 .. Len(issued) : issued[k] = "enroll" => k <= c
  BY <1>3
<1> HIDE DEF c
<1> QED BY <1>4, <1>5 DEF Newest

LEMMA AnswersFails ==
    ASSUME TypesInv, AnswersInv, NEW p \in Callers, Waits(p), Fails(p)
    PROVE  /\ abandoned \subseteq abandoned' /\ UNCHANGED issued
           /\ \A c \in 1 .. Len(issued) : Kept(issued[c])' /\ Awaited(c) => Awaited(c)'
<1>1. /\ pc' = [pc EXCEPT ![p] = "idle"] /\ abandoned' = abandoned \cup {waiting[p]}
      /\ isInEnrollment' = (isInEnrollment /\ ~(p = "task" /\ job[p] = "enroll"))
      /\ UNCHANGED <<job, waiting, issued>>
  BY DEF Fails, Goes
<1>2. /\ waiting[p] \in 1 .. Len(issued) /\ issued[waiting[p]] = job[p]
      /\ pc \in [Callers -> {"idle", "flush", "write", "flag", "lock", "read"}]
      /\ pc[p] # "flag" /\ isInEnrollment \in BOOLEAN
  BY DEF Waits, TypesInv, TypeOK
<1>3. ~Kept(job[p])'
  BY <1>1, <1>2 DEF Kept
<1>4. ASSUME NEW c \in 1 .. Len(issued), Kept(issued[c])', Awaited(c) PROVE Awaited(c)'
  <2>1. issued[c] # job[p]
    BY <1>1, <1>3, <1>4 DEF Kept
  <2>2. CASE issued[c] = "enroll"
    <3>1. isInEnrollment' = isInEnrollment
      BY <1>1, <1>2, <2>1, <2>2
    <3>2. pc'["httpd"] = "flag" <=> pc["httpd"] = "flag"
      BY <1>1, <1>2 DEF Callers
    <3> QED BY <1>1, <1>4, <2>2, <3>1, <3>2 DEF Awaited, Newest
  <2>3. CASE issued[c] # "enroll"
    <3>1. PICK q \in Callers : Waits(q) /\ waiting[q] = c
      BY <1>4, <2>3 DEF Awaited
    <3>2. q # p
      BY <1>2, <2>1, <3>1
    <3>3. Waits(q)'
      BY <1>1, <1>2, <3>1, <3>2 DEF Waits
    <3> QED BY <1>1, <2>3, <3>1, <3>3 DEF Awaited
  <2> QED BY <2>2, <2>3
<1> QED BY <1>1, <1>4

LEMMA AnswersAccepted ==
    ASSUME TypesInv, StreamInv, OnceInv, AnswersInv, NEW p \in Callers,
           receiveAndCheckPackage(p), Accepts(p), Drops(Expected(p)),
           NEW c \in 1 .. Len(issued), Live(c)', Kept(issued[c]), Awaited(c)
    PROVE  Awaited(c)'
<1> DEFINE to == IF job[p] = "identify" /\ ~rx[1].last THEN "lock" ELSE "idle"
<1>1. /\ pc[p] = "read" /\ pc' = [pc EXCEPT ![p] = to]
      /\ isInEnrollment' = (isInEnrollment /\ ~(job[p] = "enroll" /\ rx[1].last))
      /\ UNCHANGED <<job, waiting, issued, inbox, sensor>>
  BY DEF receiveAndCheckPackage, Goes, Accepts, Received
<1>2. /\ waiting[p] \in 1 .. Len(issued) /\ issued[waiting[p]] = job[p]
      /\ pc \in [Callers -> {"idle", "flush", "write", "flag", "lock", "read"}]
      /\ isInEnrollment \in BOOLEAN /\ Len(issued) \in Nat
      /\ job["httpd"] = "enroll" => pc["httpd"] # "read"
  BY <1>1 DEF TypesInv, TypeOK
<1>3. issued[rx[1].of] = job[p] /\ 1 \in 1 .. Len(Line) /\ Line[1] = rx[1]
  BY Accepted
<1>4. issued[c] = job[p] => rx[1].of = waiting[p]
  BY OwnAnswer
\* It is not c's last package that was read.
<1>5. rx[1].last => c # rx[1].of
  BY <1>1, LastTaken
<1> HIDE DEF to
<1>6. to \in {"lock", "idle"} /\ (to = "idle" => rx[1].last \/ job[p] # "identify")
  BY DEF to
<1>7. pc'["httpd"] = "flag" <=> pc["httpd"] = "flag"
  BY <1>1, <1>2, <1>6 DEF Callers
<1>8. CASE issued[c] = "enroll"
  <2>1. Newest(c) /\ (isInEnrollment \/ pc["httpd"] = "flag")
    BY <1>8 DEF Awaited
  <2>2. ASSUME job[p] = "enroll", rx[1].last PROVE FALSE
    <3>1. p = "task" /\ Waits(p) /\ Kept("enroll")
      BY <1>1, <1>2, <1>8, <2>2 DEF Callers, Waits
    <3>2. Newest(waiting[p])
      BY <2>2, <3>1 DEF AnswersInv
    <3>3. c <= waiting[p] /\ waiting[p] <= c
      BY <1>2, <1>8, <2>1, <2>2, <3>2 DEF Newest
    <3>4. c = waiting[p]
      BY <1>2, <3>3
    <3> QED BY <1>4, <1>5, <1>8, <2>2, <3>4
  <2>3. isInEnrollment' = isInEnrollment
    BY <1>1, <1>2, <2>2
  <2> QED BY <1>1, <1>7, <1>8, <2>1, <2>3 DEF Awaited, Newest
<1>9. CASE issued[c] # "enroll"
  <2>1. PICK q \in Callers : Waits(q) /\ waiting[q] = c
    BY <1>9 DEF Awaited
  <2>2. Waits(q)'
    <3>1. CASE q # p
      BY <1>1, <1>2, <2>1, <3>1 DEF Waits
    <3>2. CASE q = p
      <4>1. c = rx[1].of /\ ~rx[1].last
        BY <1>2, <1>4, <1>5, <2>1, <3>2
      <4>2. job[p] # "ack"
        BY <1>3, <4>1 DEF OnceInv
      <4>3. job[p] = "identify"
        BY <1>2, <1>9, <2>1, <3>2, <4>2 DEF TypesInv, Kinds
      <4> QED BY <1>1, <1>2, <1>6, <3>2, <4>1, <4>3 DEF Waits
    <3> QED BY <3>1, <3>2
  <2> QED BY <1>1, <1>9, <2>1, <2>2 DEF Awaited
<1> QED BY <1>8, <1>9

LEMMA AnswersCallers ==
    ASSUME TypesInv, TypesInv', StreamInv, OnceInv, AnswersInv, CallersMove
    PROVE  AnswersInv'
<1> DEFINE Enrolls == Kept("enroll") /\ isInEnrollment => pc["httpd"] # "flag"
           Reads == Kept("enroll") /\ Waits("task") /\ job["task"] = "enroll"
                        => isInEnrollment /\ Newest(waiting["task"])
           Awaits == \A c \in 1 .. Len(issued) : Live(c) /\ Kept(issued[c]) => Awaited(c)
<1>1. /\ Enrolls /\ Reads /\ "httpd" \in Callers /\ "task" \in Callers /\ "httpd" # "task"
      /\ pc \in [Callers -> {"idle", "flush", "write", "flag", "lock", "read"}]
      /\ job \in [Callers -> Kinds] /\ isInEnrollment \in BOOLEAN
      /\ pc["task"] \in {"flush", "write"} => job["task"] = "identify"
      /\ waiting \in [Callers -> 0 .. Len(issued)]
      /\ \A q \in Callers : q \in {"httpd", "task"}
  BY DEF AnswersInv, TypesInv, TypeOK, Callers
<1>2. /\ UNCHANGED issued
      /\ \A c \in 1 .. Len(issued) : Live(c)' => Live(c)
  <2>1. PICK k : Drops(k)
    BY CallersLine
  <2>2. UNCHANGED <<inbox, sensor, issued>>
    BY CallersLine
  <2> QED BY <2>1, <2>2, SameInbox, LiveDrops
\* A step after which nobody waits for less.
<1>a. ASSUME UNCHANGED abandoned,
             \A q \in Callers : Waits(q) => Waits(q)' /\ waiting'[q] = waiting[q],
             isInEnrollment \/ pc["httpd"] = "flag" => isInEnrollment' \/ pc'["httpd"] = "flag"
      PROVE  Awaits'
  <2>1. \A c \in 1 .. Len(issued) : Awaited(c) => Awaited(c)'
    BY <1>a, <1>2, AwaitedOn
  <2> QED BY <1>a, <1>2, <2>1, AnswersKept
<1>k. /\ UNCHANGED <<issued, abandoned>> => (Kept("enroll")' <=> Kept("enroll"))
      /\ UNCHANGED issued /\ abandoned \subseteq abandoned' /\ Kept("enroll")' => Kept("enroll")
  BY DEF Kept
<1>q. Awaits' /\ Enrolls' /\ Reads' => AnswersInv'
  BY DEF AnswersInv
<1> USE DEF Goes, callerVars, lineVars
<1> HIDE DEF Awaits
<1>s. ASSUME NEW p \in Callers, NEW kind, Starts(p, kind) PROVE AnswersInv'
  <2>1. /\ pc[p] = "idle" /\ pc' = [pc EXCEPT ![p] = "flush"] /\ job' = [job EXCEPT ![p] = kind]
        /\ UNCHANGED <<waiting, isInEnrollment, issued, abandoned>>
    BY <1>s DEF Starts
  <2>2. Awaits'
    BY <1>a, <1>1, <2>1 DEF Waits
  <2>3. Enrolls' /\ Reads'
    BY <1>s, <1>1, <1>k, <2>1 DEF Waits, Newest
  <2> QED BY <1>q, <2>2, <2>3
<1>3. CASE Command
  BY <1>1, <1>3, <1>s DEF Command
<1>4. CASE AutoEnroll
  BY <1>1, <1>4, <1>s DEF AutoEnroll
<1>5. CASE AutoIdentify
  BY <1>1, <1>5, <1>s DEF AutoIdentify
<1>6. CASE SetInEnrollment
  <2>1. /\ pc["httpd"] = "flag" /\ pc' = [pc EXCEPT !["httpd"] = "idle"]
        /\ isInEnrollment' = TRUE /\ UNCHANGED <<job, waiting, issued, abandoned>>
    BY <1>6 DEF SetInEnrollment
  <2>2. Awaits'
    BY <1>a, <1>1, <2>1 DEF Waits
  <2>3. Enrolls' /\ Reads'
    BY <1>1, <1>k, <2>1 DEF Waits, Newest
  <2> QED BY <1>q, <2>2, <2>3
<1>7. CASE task_enroll
  <2>1. /\ pc["task"] = "idle" /\ isInEnrollment /\ pc' = [pc EXCEPT !["task"] = "lock"]
        /\ job' = [job EXCEPT !["task"] = "enroll"]
        /\ waiting' = [waiting EXCEPT !["task"] = waiting'["task"]]
        /\ UNCHANGED <<isInEnrollment, issued, abandoned>>
    BY <1>1, <1>7 DEF task_enroll
  <2>2. Newest(waiting'["task"])
    BY <1>7, NewestEnroll
  <2>3. Awaits'
    BY <1>a, <1>1, <2>1 DEF Waits
  <2>4. Enrolls' /\ Reads'
    BY <1>1, <1>k, <2>1, <2>2 DEF Waits, Newest
  <2> QED BY <1>q, <2>3, <2>4
<1>8. ASSUME NEW p \in Callers, Flush(p) \/ Lock(p) PROVE AnswersInv'
  <2>1. /\ UNCHANGED <<job, waiting, isInEnrollment, issued, abandoned>>
        /\ \/ pc[p] = "flush" /\ pc' = [pc EXCEPT ![p] = "write"]
           \/ pc[p] = "lock" /\ pc' = [pc EXCEPT ![p] = "read"]
    BY <1>8 DEF Flush, Lock
  <2>2. Awaits'
    BY <1>a, <1>1, <2>1 DEF Waits
  <2>3. Enrolls' /\ Reads'
    BY <1>1, <1>k, <2>1 DEF Waits, Newest
  <2> QED BY <1>q, <2>2, <2>3
<1>f. ASSUME NEW p \in Callers, Waits(p), Fails(p) PROVE AnswersInv'
  <2>1. /\ pc' = [pc EXCEPT ![p] = "idle"] /\ UNCHANGED <<job, waiting, issued>>
        /\ isInEnrollment' = (isInEnrollment /\ ~(p = "task" /\ job[p] = "enroll"))
        /\ abandoned \subseteq abandoned'
    BY <1>f DEF Fails
  <2>2. Awaits'
    BY <1>2, <1>f, AnswersFails, AnswersKept DEF Awaits
  <2>3. Enrolls' /\ Reads'
    BY <1>1, <1>k, <2>1 DEF Waits, Newest
  <2> QED BY <1>q, <2>2, <2>3
<1>9. ASSUME NEW p \in Callers, LockTimeout(p) \/ ReadTimeout(p) PROVE AnswersInv'
  BY <1>9, <1>f DEF LockTimeout, ReadTimeout, Waits
<1>10. ASSUME NEW p \in Callers, receiveAndCheckPackage(p) PROVE AnswersInv'
  <2>1. CASE ~Accepts(p)
    BY <1>10, <1>f, <2>1 DEF receiveAndCheckPackage, Received, Waits
  <2>2. CASE Accepts(p)
    <3> DEFINE to == IF job[p] = "identify" /\ ~rx[1].last THEN "lock" ELSE "idle"
    <3>1. /\ pc[p] = "read" /\ pc' = [pc EXCEPT ![p] = to]
          /\ isInEnrollment' = (isInEnrollment /\ ~(job[p] = "enroll" /\ rx[1].last))
          /\ UNCHANGED <<job, waiting, issued, abandoned>>
      BY <1>10, <2>2 DEF receiveAndCheckPackage, Accepts, Received
    <3>2. Drops(Expected(p))
      <4>1. rx' = SubSeq(rx, Expected(p) + 1, Len(rx)) /\ UNCHANGED wire
        BY <1>10 DEF receiveAndCheckPackage
      <4>2. Expected(p) \in Nat /\ Expected(p) <= Len(rx)
        BY <2>2, Accepted
      <4> QED BY <4>1, <4>2, TakenLine
    <3>3. \A c \in 1 .. Len(issued) : Live(c)' /\ Kept(issued[c])' /\ Awaited(c) => Awaited(c)'
      BY <1>10, <2>2, <3>1, <3>2, AnswersAccepted DEF Kept
    <3>4. Awaits'
      BY <1>2, <3>1, <3>3, AnswersKept DEF Awaits
    <3>5. Enrolls' /\ Reads'
      <4> HIDE DEF to
      <4>1. to \in {"lock", "idle"} /\ (to = "lock" => job[p] = "identify")
        BY DEF to
      <4>2. Enrolls'
        BY <1>1, <1>k, <3>1, <4>1
      <4>3. CASE p = "task" /\ job[p] = "enroll"
        BY <1>1, <1>k, <3>1, <4>1, <4>3 DEF Waits
      <4>4. CASE job[p] # "enroll"
        BY <1>1, <1>k, <3>1, <4>1, <4>4 DEF Waits, Newest
      <4>5. p = "httpd" => job[p] # "enroll"
        BY <3>1 DEF TypesInv, TypeOK
      <4> QED BY <1>1, <4>2, <4>3, <4>4, <4>5
    <3> QED BY <1>q, <3>4, <3>5
  <2> QED BY <2>1, <2>2
<1> QED BY <1>3, <1>4, <1>5, <1>6, <1>7, <1>8, <1>9, <1>10 DEF CallersMove

LEMMA AnswersWrites ==
    ASSUME TypesInv, TypesInv', OnceInv, AnswersInv, NEW p \in Callers, WriteCommand(p)
    PROVE  AnswersInv'
<1>0. PICK n : n = Len(issued) + 1
  OBVIOUS
<1> DEFINE to == IF p = "httpd" /\ job[p] = "enroll" THEN "flag" ELSE "lock"
<1>1. /\ pc[p] = "write" /\ pc' = [pc EXCEPT ![p] = to]
      /\ waiting' = [waiting EXCEPT ![p] = n]
      /\ abandoned' = abandoned \cup Superseded(p)
      /\ UNCHANGED <<job, isInEnrollment, sensor>>
      /\ Line' = Line /\ Len(issued) \in Nat /\ Len(issued') = n
      /\ \A c \in 1 .. Len(issued) : issued'[c] = issued[c]
      /\ issued'[n] = job[p]
      /\ Len(inbox') = Len(inbox) + 1 /\ Len(inbox) \in Nat
      /\ \A i \in 1 .. Len(inbox) : inbox'[i] = inbox[i]
      /\ inbox'[Len(inbox) + 1] = n
  BY <1>0, OnceWrites DEF WriteCommand, Goes
<1>2. /\ "httpd" \in Callers /\ "task" \in Callers /\ "httpd" # "task"
      /\ \A q \in Callers : q \in {"httpd", "task"}
      /\ pc \in [Callers -> {"idle", "flush", "write", "flag", "lock", "read"}]
      /\ isInEnrollment \in BOOLEAN /\ waiting \in [Callers -> 0 .. Len(issued)]
      /\ job["httpd"] \in {"ack", "enroll"} /\ job["task"] \in {"identify", "enroll"}
      /\ pc["task"] \in {"flush", "write"} => job["task"] = "identify"
      /\ \A q \in Callers : Waits(q) => waiting[q] \in 1 .. Len(issued)
                                        /\ issued[waiting[q]] = job[q]
  BY DEF TypesInv, TypeOK, Waits, Callers
<1>3. Kept("enroll") /\ Waits("task") /\ job["task"] = "enroll"
          => isInEnrollment /\ Newest(waiting["task"])
  BY DEF AnswersInv
<1> HIDE DEF to, Line
<1>4. n \in Nat /\ 1 .. Len(issued) \subseteq 1 .. n /\ n \in 1 .. n
      /\ \A c \in 1 .. n : c \in 1 .. Len(issued) \/ c = n
  BY <1>0, <1>1
<1>5. to \in {"flag", "lock"} /\ (to = "flag" <=> job[p] = "enroll")
      /\ (job[p] = "enroll" => p = "httpd")
  BY <1>1, <1>2 DEF to
\* A second enrollment supersedes the one that runs.
<1>k. ASSUME Kept("enroll")'
      PROVE  Kept("enroll") /\ ~(job[p] = "enroll" /\ isInEnrollment)
  <2>1. abandoned \subseteq 1 .. Len(issued) /\ Superseded(p) \subseteq 1 .. Len(issued)
    BY DEF TypesInv, Superseded
  <2>2. Kept("enroll")
    BY <1>k, <1>1, <2>1 DEF Kept
  <2>3. ASSUME job[p] = "enroll", isInEnrollment PROVE FALSE
    <3>1. PICK c \in 1 .. Len(issued) : issued[c] = "enroll"
      BY <2>3 DEF TypesInv
    <3>2. c \in Superseded(p)
      BY <2>3, <3>1 DEF Superseded
    <3> QED BY <1>k, <1>1, <3>1, <3>2 DEF Kept
  <2> QED BY <2>2, <2>3
\* Nothing of the new command's kind is waited for.
<1>6. ASSUME NEW c \in 1 .. Len(issued), Awaited(c), Kept(issued[c])' PROVE issued[c] # job[p]
  <2>1. CASE issued[c] = "enroll"
    <3>1. isInEnrollment \/ pc["httpd"] = "flag"
      BY <1>6, <2>1 DEF Awaited
    <3>2. ASSUME job[p] = "enroll" PROVE isInEnrollment
      BY <1>1, <1>2, <1>5, <3>1, <3>2
    <3>3. Kept("enroll")'
      BY <1>1, <1>6, <2>1
    <3>4. job[p] # "enroll"
      BY <1>k, <3>2, <3>3
    <3> QED BY <2>1, <3>4
  <2>2. CASE issued[c] # "enroll"
    <3>1. PICK q \in Callers : Waits(q) /\ waiting[q] = c
      BY <1>6, <2>2 DEF Awaited
    <3>2. q # p /\ issued[c] = job[q]
      BY <1>1, <1>2, <3>1 DEF Waits
    <3> QED BY <1>2, <2>2, <3>2
  <2> QED BY <2>1, <2>2
<1>7. ASSUME NEW c \in 1 .. Len(issued), Live(c)', Kept(issued[c])' PROVE Awaited(c)'
  <2>1. Live(c)
    <3>1. \A i \in 1 .. Len(inbox') : \/ i \in 1 .. Len(inbox) /\ inbox'[i] = inbox[i]
                                      \/ inbox'[i] = n
      BY <1>1
    <3>2. c # n
      BY <1>0, <1>1
    <3> QED BY <1>1, <1>7, <3>1, <3>2 DEF Live
  <2>2. Kept(issued[c])
    <3>1. abandoned \subseteq 1 .. Len(issued) /\ issued'[c] = issued[c]
      BY <1>1 DEF TypesInv
    <3> QED BY <1>1, <1>7, <3>1 DEF Kept
  <2>3. Awaited(c) /\ issued[c] # job[p]
    <3>1. Awaited(c)
      BY <2>1, <2>2 DEF AnswersInv
    <3> QED BY <1>6, <1>7, <3>1
  <2>4. CASE issued[c] = "enroll"
    <3>1. Newest(c)'
      BY <1>1, <1>4, <2>3, <2>4 DEF Awaited, Newest
    <3>2. isInEnrollment' \/ pc'["httpd"] = "flag"
      BY <1>1, <1>2, <2>3, <2>4 DEF Awaited
    <3> QED BY <1>1, <2>4, <3>1, <3>2 DEF Awaited
  <2>5. CASE issued[c] # "enroll"
    <3>1. PICK q \in Callers : Waits(q) /\ waiting[q] = c
      BY <2>3, <2>5 DEF Awaited
    <3>2. Waits(q)' /\ waiting'[q] = c
      BY <1>1, <1>2, <3>1 DEF Waits
    <3> QED BY <1>1, <2>5, <3>2 DEF Awaited
  <2> QED BY <2>4, <2>5
<1>8. Awaited(n)'
  <2>1. CASE job[p] = "enroll"
    <3>1. Newest(n)'
      BY <1>1, <1>4 DEF Newest
    <3>2. pc'["httpd"] = "flag"
      BY <1>1, <1>2, <1>5, <2>1
    <3> QED BY <1>1, <2>1, <3>1, <3>2 DEF Awaited
  <2>2. CASE job[p] # "enroll"
    <3>1. Waits(p)' /\ waiting'[p] = n
      BY <1>1, <1>2, <1>5, <2>2 DEF Waits
    <3> QED BY <1>1, <2>2, <3>1 DEF Awaited
  <2> QED BY <2>1, <2>2
<1>9. ASSUME Kept("enroll")', isInEnrollment' PROVE pc'["httpd"] # "flag"
  <2>1. CASE p = "httpd"
    BY <1>1, <1>2, <1>5, <1>9, <1>k, <2>1
  <2>2. CASE p # "httpd"
    BY <1>1, <1>2, <1>9, <1>k, <2>2 DEF AnswersInv
  <2> QED BY <2>1, <2>2
<1>10. ASSUME Kept("enroll")', Waits("task")', job'["task"] = "enroll"
       PROVE  isInEnrollment' /\ Newest(waiting["task"])'
  <2>1. p = "httpd"
    BY <1>1, <1>2, <1>10
  <2>2. Waits("task") /\ waiting'["task"] = waiting["task"]
    BY <1>1, <1>2, <1>10, <2>1 DEF Waits
  <2>3. isInEnrollment /\ Newest(waiting["task"]) /\ job[p] # "enroll"
    BY <1>1, <1>3, <1>10, <1>k, <2>1, <2>2
  <2> QED BY <1>1, <1>4, <2>2, <2>3 DEF Newest
<1>11. ASSUME NEW c \in 1 .. Len(issued'), Live(c)', Kept(issued[c])' PROVE Awaited(c)'
  BY <1>1, <1>4, <1>7, <1>8, <1>11
<1> QED BY <1>9, <1>10, <1>11 DEF AnswersInv

\* The line and the sensor bring nothing to life.
LEMMA AnswersWithoutCallers ==
    ASSUME AnswersInv, UNCHANGED <<callerVars, issued, abandoned>>,
           \A c \in 1 .. Len(issued) : Live(c)' => Live(c)
    PROVE  AnswersInv'
<1>1. UNCHANGED <<pc, job, waiting, isInEnrollment>>
  BY DEF callerVars
<1>2. \A c \in 1 .. Len(issued) : Awaited(c) => Awaited(c)'
  BY <1>1, AwaitedOn DEF Waits
<1>3. \A c \in 1 .. Len(issued') : Live(c)' /\ Kept(issued[c])' => Awaited(c)'
  BY <1>2, AnswersKept
<1>4. /\ Kept("enroll")' /\ isInEnrollment' => pc'["httpd"] # "flag"
      /\ Kept("enroll")' /\ Waits("task")' /\ job'["task"] = "enroll"
             => isInEnrollment' /\ Newest(waiting["task"])'
  BY <1>1 DEF AnswersInv, Waits, Newest, Kept
<1> QED BY <1>3, <1>4 DEF AnswersInv

LEMMA SensorLives ==
    ASSUME TypesInv, TypesInv', OnceInv, SensorTakes \/ SensorProgress \/ SensorEnds,
           NEW c \in 1 .. Len(issued), Live(c)'
    PROVE  Live(c)
<1>1. CASE SensorTakes
  <2> DEFINE d == Head(inbox)
  <2>1. /\ inbox # <<>> /\ inbox' = Tail(inbox) /\ UNCHANGED <<rx, issued>>
        /\ \/ issued[d] = "ack" /\ Sends(d, TRUE) /\ sensor' \in {sensor, None}
           \/ issued[d] # "ack" /\ sensor' = d /\ UNCHANGED wire
    BY <1>1 DEF SensorTakes
  <2>2. /\ InboxShrinks /\ d \in 1 .. Len(issued) /\ 1 \in 1 .. Len(inbox) /\ d = inbox[1]
    BY <2>1, TailInbox
  <2> HIDE DEF d
  <2>3. Live(d)
    BY <2>2 DEF Live
  <2>4. CASE Sends(d, TRUE) /\ sensor' \in {sensor, None}
    <3>1. Drops(0) \/ Grows(d, TRUE)
      BY <2>1, <2>2, <2>4, LineGrows
    <3> QED BY <2>2, <2>3, <2>4, <3>1, LiveDrops, LiveGrows
  <2>5. CASE sensor' = d /\ UNCHANGED wire
    <3>1. Line' = Line
      BY <2>1, <2>5 DEF Line
    <3> HIDE DEF Line
    <3> QED BY <2>2, <2>3, <2>5, <3>1 DEF Live, InboxShrinks
  <2> QED BY <2>1, <2>4, <2>5
<1>2. CASE SensorProgress \/ SensorEnds
  <2>1. /\ sensor # None /\ UNCHANGED <<inbox, rx, issued>>
        /\ Sends(sensor, FALSE) \/ Sends(sensor, TRUE)
        /\ sensor' \in {sensor, None}
    BY <1>2 DEF SensorProgress, SensorEnds
  <2>2. sensor \in 1 .. Len(issued)
    BY <2>1 DEF TypesInv, TypeOK, None
  <2>3. Drops(0) \/ Grows(sensor, FALSE) \/ Grows(sensor, TRUE)
    BY <2>1, <2>2, LineGrows
  <2>4. Live(sensor) /\ InboxShrinks
    BY <2>1, SameInbox DEF Live
  <2> QED BY <2>1, <2>2, <2>3, <2>4, LiveDrops, LiveGrows
<1> QED BY <1>1, <1>2

LEMMA AnswersStep ==
    TypesInv /\ StreamInv /\ OnceInv /\ AnswersInv /\ [Next]_vars => AnswersInv'
<1> SUFFICES ASSUME TypesInv, StreamInv, OnceInv, AnswersInv, [Next]_vars PROVE AnswersInv'
  OBVIOUS
<1>t. TypesInv'
  BY TypesStep
<1>1. CASE CallersMove
  BY <1>1, <1>t, AnswersCallers
<1>2. CASE UNCHANGED vars
  <2>1. Line' = Line /\ UNCHANGED <<callerVars, inbox, sensor, issued, abandoned>>
    BY <1>2 DEF vars, lineVars, Line
  <2>2. \A c \in 1 .. Len(issued) : Live(c)' => Live(c)
    BY <2>1 DEF Live
  <2> QED BY <2>1, <2>2, AnswersWithoutCallers
<1>3. ASSUME NEW p \in Callers, WriteCommand(p) PROVE AnswersInv'
  BY <1>3, <1>t, AnswersWrites
<1>4. CASE Arrive
  <2>1. Line' = Line /\ UNCHANGED <<callerVars, inbox, sensor, issued, abandoned>>
    BY <1>4, <1>t, LineArrives DEF Arrive
  <2>2. \A c \in 1 .. Len(issued) : Live(c)' => Live(c)
    BY <2>1 DEF Live
  <2> QED BY <2>1, <2>2, AnswersWithoutCallers
<1>5. CASE SensorTakes \/ SensorProgress \/ SensorEnds
  <2>1. UNCHANGED <<callerVars, issued, abandoned>>
    BY <1>5 DEF SensorTakes, SensorProgress, SensorEnds
  <2>2. \A c \in 1 .. Len(issued) : Live(c)' => Live(c)
    BY <1>5, <1>t, SensorLives
  <2> QED BY <2>1, <2>2, AnswersWithoutCallers
<1> QED BY <1>1, <1>2, <1>3, <1>4, <1>5 DEF Next, CallerStep, task_detect, CallersMove

LEMMA LineInitially == Init => StreamInv /\ OnceInv /\ AnswersInv
<1> SUFFICES ASSUME Init PROVE StreamInv /\ OnceInv /\ AnswersInv
  OBVIOUS
<1>1. /\ inbox = <<>> /\ sensor = None /\ rx = <<>> /\ wire = <<>> /\ issued = <<>>
      /\ isInEnrollment = FALSE /\ \A p \in Callers : pc[p] = "idle"
      /\ Len(<<>>) = 0
  BY EmptySeq DEF Init
<1>2. Line = <<>>
  BY <1>1, EmptySeq, ConcatEmptySeq DEF Line
<1> HIDE DEF Line
<1>3. StreamInv
  BY <1>1, <1>2 DEF StreamInv
<1>4. OnceInv
  BY <1>1, <1>2 DEF OnceInv
<1>5. AnswersInv
  BY <1>1 DEF AnswersInv, Waits, Callers
<1> QED BY <1>3, <1>4, <1>5

\* What a caller accepts as its answer answers its own command, unless a
\* command of the same kind was given up on before: under every fault, whatever
\* is lost, late or cut by the other task's reads and flushes.
THEOREM AnswersAreOwn == Spec => []TakesOwnAnswer
<1>1. TypesInv /\ AnswersInv => TakesOwnAnswer
  <2> SUFFICES ASSUME TypesInv, AnswersInv, NEW p \in Callers, Accepts(p), NEW i \in 1 .. Expected(p)
               PROVE  \/ Taken(p)[i].of = waiting[p]
                      \/ /\ issued[Taken(p)[i].of] = job[p]
                         /\ \E c \in abandoned : issued[c] = job[p]
    BY DEF TakesOwnAnswer
  <2>1. Taken(p)[i] = rx[i] /\ rx[i].of = rx[1].of /\ issued[rx[1].of] = job[p]
    BY Accepted
  <2>2. CASE Kept(job[p])
    BY <2>1, <2>2, OwnAnswer
  <2>3. CASE ~Kept(job[p])
    BY <2>1, <2>3 DEF Kept
  <2> QED BY <2>2, <2>3
<1> DEFINE IInv == TypesInv /\ StreamInv /\ OnceInv /\ AnswersInv
<1>2. Init => IInv
  BY TypesInitially, LineInitially
<1>3. IInv /\ [Next]_vars => IInv'
  BY TypesStep, StreamStep, AnswersStep
<1> HIDE DEF IInv
<1>4. IInv => TakesOwnAnswer
  BY <1>1 DEF IInv
<1> QED BY <1>2, <1>3, <1>4, PTL DEF Spec

-----------------------------------------------------------------------------
\* While one caller has the line to itself, only it may act without taking that
\* away.
LEMMA AloneActs ==
    ASSUME TypesInv, AloneInv, NEW r \in Callers, pc[r] # "idle", NEW to, Goes(r, to),
           UNCHANGED alone, isInEnrollment' => isInEnrollment, to \notin {"flush", "write"},
           HasLine(r) /\ to \in {"lock", "read"} => OwnLine(r)'
    PROVE  AloneInv'
<1> SUFFICES ASSUME NEW p \in alone PROVE HasLine(p)'
  BY DEF AloneInv
<1>1. HasLine(p) /\ pc' = [pc EXCEPT ![r] = to]
      /\ pc \in [Callers -> {"idle", "flush", "write", "flag", "lock", "read"}]
  BY DEF AloneInv, Goes, TypesInv, TypeOK
<1>2. r = p
  BY <1>1 DEF HasLine, Quiet
<1>3. ASSUME NEW q \in Callers \ {p} PROVE Quiet(q)'
  BY <1>1, <1>2 DEF HasLine, Quiet
<1>4. pc'[p] = to
  BY <1>1, <1>2
<1>5. Waits(p)' => OwnLine(p)'
  BY <1>1, <1>2, <1>4 DEF Waits
<1> QED BY <1>3, <1>4, <1>5 DEF HasLine

LEMMA AloneFails ==
    ASSUME TypesInv, AloneInv, NEW r \in Callers, Waits(r), Fails(r)
    PROVE  AloneInv'
<1>1. /\ Goes(r, "idle") /\ UNCHANGED alone /\ pc[r] # "idle"
      /\ isInEnrollment' => isInEnrollment
  BY DEF Fails, Waits
<1> QED BY <1>1, AloneActs

LEMMA AloneAccepts ==
    ASSUME TypesInv, TypesInv', StreamInv, AloneInv, NEW r \in Callers,
           receiveAndCheckPackage(r), Accepts(r)
    PROVE  AloneInv'
<1> DEFINE n == Expected(r)
           to == IF job[r] = "identify" /\ ~rx[1].last THEN "lock" ELSE "idle"
<1>1. /\ pc[r] = "read" /\ Goes(r, to) /\ UNCHANGED alone
      /\ isInEnrollment' => isInEnrollment
      /\ UNCHANGED <<waiting, inbox, sensor, wire>> /\ rx' = SubSeq(rx, n + 1, Len(rx))
  BY DEF receiveAndCheckPackage, Accepts, Received
<1>2. /\ n \in Nat \ {0} /\ n <= Len(rx) /\ Size(rx[1].of) = n /\ n \in 1 .. n
      /\ Line[n] = rx[n] /\ rx[n].of = rx[1].of /\ rx[n].pos = n
  BY Accepted
<1>3. Drops(n) /\ LineParts
  BY <1>1, <1>2, TakenLine, LineFacts
<1> HIDE DEF n, to
<1>4. /\ Len(Line') = Len(Line) - n /\ Len(Line) \in Nat
      /\ \A i \in 1 .. Len(Line') : Line'[i] = Line[i + n]
  BY <1>3 DEF Drops, LineParts
<1> HIDE DEF Line, Size
<1>5. ASSUME HasLine(r) PROVE OwnLine(r)'
  <2>1. OwnLine(r)
    BY <1>1, <1>5 DEF HasLine, Waits
  <2>2. \A i \in 1 .. Len(Line') : i + n \in 1 .. Len(Line)
    BY <1>2, <1>4
  <2>3. ASSUME 1 \in 1 .. Len(Line') PROVE Line'[1].pos = 1
    <3>1. n \in 1 .. Len(Line) - 1 /\ 1 + n = n + 1
      BY <1>2, <1>4, <2>3
    <3>2. Follows(Line[n], Line[n + 1])
      BY <3>1 DEF StreamInv
    <3>3. Line[n + 1].pos = 1
      BY <1>2, <3>2 DEF Follows
    <3> QED BY <1>4, <2>3, <3>1, <3>3
  <2> QED BY <1>1, <1>4, <2>1, <2>2, <2>3 DEF OwnLine
<1>6. to \in {"lock", "idle"}
  BY DEF to
<1> QED BY <1>1, <1>5, <1>6, AloneActs

LEMMA AloneWrites ==
    ASSUME TypesInv, TypesInv', OnceInv, AloneInv, NEW r \in Callers, WriteCommand(r)
    PROVE  AloneInv'
<1> DEFINE to == IF r = "httpd" /\ job[r] = "enroll" THEN "flag" ELSE "lock"
<1>1. /\ pc[r] = "write" /\ Goes(r, to) /\ UNCHANGED <<alone, isInEnrollment, sensor>>
      /\ waiting' = [waiting EXCEPT ![r] = Len(issued')]
      /\ Line' = Line /\ Len(issued') = Len(issued) + 1
      /\ Len(inbox') = Len(inbox) + 1 /\ Len(inbox) \in Nat
      /\ inbox'[Len(inbox) + 1] = Len(issued) + 1
  BY OnceWrites DEF WriteCommand
<1>2. waiting'[r] = Len(issued')
  BY <1>1 DEF TypesInv, TypeOK
<1>3. ASSUME HasLine(r) PROVE OwnLine(r)'
  <2>1. rx = <<>> /\ wire = <<>> /\ inbox = <<>> /\ sensor = None
    BY <1>1, <1>3 DEF HasLine, LineQuiet
  <2>2. Len(Line) = 0 /\ Len(inbox) = 0
    BY <2>1, EmptySeq, LineFacts DEF LineParts
  <2> HIDE DEF Line
  <2>3. \A i \in 1 .. Len(inbox') : inbox'[i] = waiting'[r]
    BY <1>1, <1>2, <2>2
  <2>4. 1 .. Len(Line') = {}
    BY <1>1, <2>2
  <2> QED BY <1>1, <2>1, <2>3, <2>4 DEF OwnLine
<1>4. to \notin {"flush", "write"}
  OBVIOUS
<1> HIDE DEF to
<1> QED BY <1>1, <1>3, <1>4, AloneActs

LEMMA AloneCallers ==
    ASSUME TypesInv, TypesInv', StreamInv, AloneInv, CallersMove
    PROVE  AloneInv'
<1> USE DEF callerVars, lineVars
<1>1. CASE Command \/ AutoEnroll \/ AutoIdentify \/ SetInEnrollment \/ task_enroll
  <2>1. alone' = {}
    BY <1>1 DEF Command, AutoEnroll, AutoIdentify, Starts, SetInEnrollment, task_enroll
  <2> QED BY <2>1 DEF AloneInv
<1>2. ASSUME NEW r \in Callers, Flush(r) PROVE AloneInv'
  <2>1. /\ pc' = [pc EXCEPT ![r] = "write"] /\ rx' = <<>>
        /\ UNCHANGED <<isInEnrollment, inbox, sensor, wire>>
        /\ alone' = IF LineQuiet /\ \A q \in Callers \ {r} : Quiet(q) THEN {r} ELSE {}
        /\ pc \in [Callers -> {"idle", "flush", "write", "flag", "lock", "read"}]
    BY <1>2 DEF Flush, Goes, TypesInv, TypeOK
  <2> SUFFICES ASSUME NEW p \in alone' PROVE HasLine(p)'
    BY DEF AloneInv
  <2>2. p = r /\ LineQuiet /\ \A q \in Callers \ {r} : Quiet(q)
    BY <2>1
  <2>3. ASSUME NEW q \in Callers \ {p} PROVE Quiet(q)'
    BY <2>1, <2>2 DEF Quiet
  <2>4. pc'[p] = "write" /\ LineQuiet'
    BY <2>1, <2>2 DEF LineQuiet
  <2> QED BY <2>1, <2>3, <2>4 DEF HasLine, Waits
<1>3. ASSUME NEW r \in Callers, Lock(r) PROVE AloneInv'
  <2>1. /\ pc[r] = "lock" /\ Goes(r, "read")
        /\ UNCHANGED <<waiting, isInEnrollment, inbox, sensor, wire, rx, alone>>
    BY <1>3 DEF Lock
  <2>2. HasLine(r) => OwnLine(r)'
    BY <2>1 DEF HasLine, Waits, OwnLine, Line
  <2> QED BY <2>1, <2>2, AloneActs
<1>4. ASSUME NEW r \in Callers, LockTimeout(r) \/ ReadTimeout(r) PROVE AloneInv'
  BY <1>4, AloneFails DEF LockTimeout, ReadTimeout, Waits
<1>5. ASSUME NEW r \in Callers, receiveAndCheckPackage(r) PROVE AloneInv'
  <2>1. CASE Accepts(r)
    BY <1>5, <2>1, AloneAccepts
  <2>2. CASE ~Accepts(r)
    BY <1>5, <2>2, AloneFails DEF receiveAndCheckPackage, Received, Waits
  <2> QED BY <2>1, <2>2
<1> QED BY <1>1, <1>2, <1>3, <1>4, <1>5 DEF CallersMove

\* A step of the sensor: only the command of whoever has the line is there.
LEMMA AloneSent ==
    ASSUME TypesInv, TypesInv', NEW c \in 1 .. Len(issued), NEW last \in BOOLEAN, Sends(c, last),
           UNCHANGED <<rx, issued>>, NEW p \in alone', \A i \in 1 .. Len(Line) : Line[i].of = c,
           1 \in 1 .. Len(Line) => Line[1].pos = 1
    PROVE  /\ p \in alone
           /\ \A i \in 1 .. Len(Line') : Line'[i].of = c
           /\ 1 \in 1 .. Len(Line') => Line'[1].pos = 1
<1>1. alone' = alone
  BY DEF Sends
<1>2. Drops(0) \/ Grows(c, last)
  BY <1>1, LineGrows
<1>3. Len(Line) \in Nat /\ Size(c) \in Nat \ {0}
  BY LineFacts DEF LineParts
<1> HIDE DEF Line, Size
<1>4. CASE Drops(0)
  <2>1. Len(Line') = Len(Line) /\ \A i \in 1 .. Len(Line') : Line'[i] = Line[i]
    BY <1>3, <1>4 DEF Drops
  <2> QED BY <1>1, <2>1
<1>5. CASE Grows(c, last)
  <2>1. /\ Len(Line') = Len(Line) + Size(c)
        /\ \A i \in 1 .. Len(Line) : Line'[i] = Line[i]
        /\ \A i \in 1 .. Size(c) : Line'[Len(Line) + i] = [of |-> c, pos |-> i, last |-> last]
    BY <1>5 DEF Grows
  <2>2. ASSUME NEW i \in 1 .. Len(Line')
        PROVE  \/ i \in 1 .. Len(Line) /\ Line'[i] = Line[i]
               \/ i - Len(Line) \in 1 .. Size(c)
                  /\ Line'[i] = [of |-> c, pos |-> i - Len(Line), last |-> last]
    <3>1. CASE i \in 1 .. Len(Line)
      BY <2>1, <3>1
    <3>2. CASE i \notin 1 .. Len(Line)
      <4>1. i - Len(Line) \in 1 .. Size(c) /\ Len(Line) + (i - Len(Line)) = i
        BY <1>3, <2>1, <3>2
      <4> QED BY <2>1, <4>1
    <3> QED BY <3>1, <3>2
  <2>3. ASSUME NEW i \in 1 .. Len(Line') PROVE Line'[i].of = c
    <3>1. CASE i \in 1 .. Len(Line) /\ Line'[i] = Line[i]
      BY <3>1
    <3>2. CASE Line'[i] = [of |-> c, pos |-> i - Len(Line), last |-> last]
      BY <3>2
    <3> QED BY <2>2, <3>1, <3>2
  <2>4. ASSUME 1 \in 1 .. Len(Line') PROVE Line'[1].pos = 1
    <3>1. CASE 1 \in 1 .. Len(Line) /\ Line'[1] = Line[1]
      BY <3>1
    <3>2. CASE 1 - Len(Line) \in 1 .. Size(c)
               /\ Line'[1] = [of |-> c, pos |-> 1 - Len(Line), last |-> last]
      <4>1. 1 - Len(Line) = 1
        BY <1>3, <3>2
      <4> QED BY <3>2, <4>1
    <3> QED BY <2>2, <2>4, <3>1, <3>2
  <2> QED BY <1>1, <2>3, <2>4
<1> QED BY <1>2, <1>4, <1>5

LEMMA AloneSensor ==
    ASSUME TypesInv, TypesInv', OnceInv, AloneInv, SensorTakes \/ SensorProgress \/ SensorEnds
    PROVE  AloneInv'
<1> SUFFICES ASSUME NEW p \in alone' PROVE HasLine(p)'
  BY DEF AloneInv
<1>1. UNCHANGED <<pc, waiting, isInEnrollment, rx, issued>> /\ p \in alone
  <2>1. alone' \subseteq alone
    BY DEF SensorTakes, SensorProgress, SensorEnds, Sends
  <2> QED BY <2>1 DEF SensorTakes, SensorProgress, SensorEnds, callerVars
<1>2. HasLine(p)
  BY <1>1 DEF AloneInv
<1>3. ~LineQuiet
  BY DEF SensorTakes, SensorProgress, SensorEnds, LineQuiet
<1>4. pc[p] # "write" /\ pc'[p] # "flush" /\ \A q \in Callers \ {p} : Quiet(q)'
  BY <1>1, <1>2, <1>3 DEF HasLine, Quiet
<1>5. ASSUME Waits(p) PROVE OwnLine(p)'
  <2>1. /\ \A i \in 1 .. Len(inbox) : inbox[i] = waiting[p]
        /\ sensor \in {None, waiting[p]}
        /\ \A i \in 1 .. Len(Line) : Line[i].of = waiting[p]
        /\ 1 \in 1 .. Len(Line) => Line[1].pos = 1
    BY <1>2, <1>5 DEF HasLine, OwnLine
  <2>2. PICK c : c = waiting[p]
    OBVIOUS
  <2>3. CASE SensorTakes
    <3>1. /\ inbox # <<>> /\ inbox' = Tail(inbox)
          /\ \/ Sends(Head(inbox), TRUE) /\ sensor' \in {sensor, None}
             \/ sensor' = Head(inbox) /\ UNCHANGED wire
      BY <2>3 DEF SensorTakes
    <3>2. InboxShrinks /\ Head(inbox) \in 1 .. Len(issued) /\ 1 \in 1 .. Len(inbox)
          /\ Head(inbox) = inbox[1]
      BY <3>1, TailInbox
    <3>3. Head(inbox) = c
      BY <2>1, <2>2, <3>2
    <3>4. (\A i \in 1 .. Len(inbox') : inbox'[i] = waiting'[p]) /\ sensor' \in {None, waiting'[p]}
      BY <1>1, <2>1, <2>2, <3>1, <3>2, <3>3 DEF InboxShrinks
    <3>5. CASE UNCHANGED wire
      <4>1. Line' = Line
        BY <1>1, <3>5 DEF Line
      <4> QED BY <1>1, <2>1, <3>4, <4>1 DEF OwnLine
    <3>6. CASE Sends(c, TRUE)
      <4>1. /\ \A i \in 1 .. Len(Line') : Line'[i].of = c
            /\ 1 \in 1 .. Len(Line') => Line'[1].pos = 1
        BY <1>1, <2>1, <2>2, <3>2, <3>3, <3>6, AloneSent
      <4> QED BY <1>1, <2>2, <3>4, <4>1 DEF OwnLine
    <3> QED BY <3>1, <3>3, <3>5, <3>6
  <2>4. CASE SensorProgress \/ SensorEnds
    <3>1. /\ sensor # None /\ sensor' \in {sensor, None} /\ UNCHANGED inbox
          /\ Sends(sensor, FALSE) \/ Sends(sensor, TRUE)
      BY <2>4 DEF SensorProgress, SensorEnds
    <3>2. sensor = c /\ sensor \in 1 .. Len(issued)
      BY <2>1, <2>2, <3>1 DEF TypesInv, TypeOK, None
    <3>3. (\A i \in 1 .. Len(inbox') : inbox'[i] = waiting'[p]) /\ sensor' \in {None, waiting'[p]}
      BY <1>1, <2>1, <2>2, <3>1, <3>2
    <3>4. /\ \A i \in 1 .. Len(Line') : Line'[i].of = c
          /\ 1 \in 1 .. Len(Line') => Line'[1].pos = 1
      BY <1>1, <2>1, <2>2, <3>1, <3>2, AloneSent
    <3> QED BY <1>1, <2>2, <3>3, <3>4 DEF OwnLine
  <2> QED BY <2>3, <2>4
<1> QED BY <1>1, <1>4, <1>5 DEF HasLine, Waits

LEMMA AloneStep ==
    TypesInv /\ StreamInv /\ OnceInv /\ AloneInv /\ [Next]_vars => AloneInv'
<1> SUFFICES ASSUME TypesInv, StreamInv, OnceInv, AloneInv, [Next]_vars PROVE AloneInv'
  OBVIOUS
<1>t. TypesInv'
  BY TypesStep
<1>1. CASE CallersMove
  BY <1>1, <1>t, AloneCallers
<1>2. CASE UNCHANGED vars
  BY <1>2 DEF vars, callerVars, lineVars, AloneInv, HasLine, OwnLine, Quiet, Waits, LineQuiet, Line
<1>3. ASSUME NEW p \in Callers, WriteCommand(p) PROVE AloneInv'
  BY <1>3, <1>t, AloneWrites
<1>4. CASE Arrive
  <2>1. Line' = Line /\ UNCHANGED <<callerVars, inbox, sensor, alone>> /\ ~LineQuiet
    BY <1>4, <1>t, LineArrives DEF Arrive, LineQuiet
  <2>2. ASSUME NEW p \in alone, HasLine(p) PROVE HasLine(p)'
    <3> HIDE DEF Line
    <3> QED BY <2>1, <2>2 DEF callerVars, HasLine, OwnLine, Quiet, Waits
  <2> QED BY <2>1, <2>2 DEF AloneInv
<1>5. CASE SensorTakes \/ SensorProgress \/ SensorEnds
  BY <1>5, <1>t, AloneSensor
<1> QED BY <1>1, <1>2, <1>3, <1>4, <1>5 DEF Next, CallerStep, task_detect, CallersMove

\* A caller that has had the line to itself since its flush reads its own
\* answer, from the start of a package on.
THEOREM AloneReadsOwn == Spec => []AloneReadsItsAnswer
<1>1. TypesInv /\ AloneInv => AloneReadsItsAnswer
  <2> SUFFICES ASSUME TypesInv, NEW p \in alone, HasLine(p), pc[p] = "read"
               PROVE  /\ \A i \in 1 .. Len(Line) : Line[i].of = waiting[p]
                      /\ Line # <<>> => Line[1].pos = 1
    BY DEF AloneInv, AloneReadsItsAnswer, Line
  <2>1. Line \in Seq(Units) /\ Len(Line) \in Nat
    BY LineFacts DEF LineParts
  <2> HIDE DEF Line
  <2>2. Line # <<>> => 1 \in 1 .. Len(Line)
    BY <2>1, EmptySeq
  <2> QED BY <2>2 DEF HasLine, OwnLine, Waits
<1> DEFINE IInv == TypesInv /\ StreamInv /\ OnceInv /\ AloneInv
<1>2. Init => IInv
  BY TypesInitially, LineInitially DEF Init, AloneInv
<1>3. IInv /\ [Next]_vars => IInv'
  BY TypesStep, StreamStep, AloneStep
<1> HIDE DEF IInv
<1>4. IInv => AloneReadsItsAnswer
  BY <1>1 DEF IInv
<1> QED BY <1>2, <1>3, <1>4, PTL DEF Spec
=============================================================================
