----------------------------- MODULE LogsProofs -----------------------------
(***************************************************************************)
(* The safety properties of Logs, for any number of streams, lines,        *)
(* subscribers and faults, and any sizes of batches and of the list.       *)
(***************************************************************************)
EXTENDS Logs, FiniteSetTheorems, TLAPS

(* Where a line can be. *)
InBuffer(l) == \E i \in 1..Len(buffer) : buffer[i] = l
Carries(p, l) == p.at = "sent" /\ Contains(p.lines, l)
OnItsWay(l) == \E p \in pushes : Carries(p, l)

(* It is in one place when it has been read, and in none before. *)
Single(l) ==
    /\ \A i, j \in 1..Len(buffer) : buffer[i] = l /\ buffer[j] = l => i = j
    /\ \A p, q \in pushes : Carries(p, l) /\ Carries(q, l) => p = q
    /\ InBuffer(l) => ~OnItsWay(l) /\ stored[l] = 0 /\ l \notin lost
    /\ OnItsWay(l) => stored[l] = 0 /\ l \notin lost
    /\ stored[l] = 0 \/ (stored[l] = 1 /\ l \notin lost)
    /\ l \in LinesRead <=> InBuffer(l) \/ OnItsWay(l) \/ stored[l] = 1 \/ l \in lost

(* Every task awaits one push at most, and the end comes after both readers. *)
WaitsOK ==
    /\ \A p \in pushes : p.by # None => task[p.by] = "flushing"
    /\ \A p, q \in pushes : p.by # None /\ p.by = q.by => p = q
    /\ task[Main] \in {"flushing", "waiting", "ended"} => buffer = <<>> /\ Gathered

(* The push will still bring its line k to the subscriber. *)
Brings(p, k, w) ==
    /\ p.at # "sent" /\ k \in p.next..Len(p.lines)
    /\ p.at = "sending" /\ k = p.next => w \in p.targets

(* Whoever is owed a line is in the list, and a push will bring it, unless none was made. *)
DueOK ==
    /\ \A w \in Subscribers : ws[w] = "joined" /\ w \notin gone => w \in list
    /\ \A w \in Subscribers : due[w] # {} => ws[w] = "joined" /\ w \notin gone
    /\ \A p \in pushes : p.dead \subseteq gone /\ (p.at = "sent" => p.next = 1)
    /\ \A w \in Subscribers : \A l \in due[w] \ unsent :
          \E p \in pushes : \E k \in Nat : Brings(p, k, w) /\ p.lines[k] = l

Inv == TypeOK /\ (\A l \in Lines : Single(l)) /\ WaitsOK /\ DueOK

-----------------------------------------------------------------------------
(* The names of the tasks differ. *)
LEMMA Names == Main \notin Sources /\ None \notin Tasks /\ Sources \subseteq Tasks /\ Main \in Tasks
  BY TasksAssumption DEF Tasks

(* What TypeOK says of a push. *)
LEMMA PushFacts ==
    ASSUME TypeOK, NEW p \in pushes
    PROVE  /\ p \in Push /\ p.by \in Tasks \cup {None} /\ p.lines \in Seq(Lines)
           /\ Len(p.lines) \in Nat /\ p.next \in Nat
           /\ p.at \in {"sent", "stored", "sending"}
           /\ p.targets \subseteq Subscribers /\ p.dead \subseteq Subscribers
<1>1. p \in Push
  BY DEF TypeOK
<1>2. QED
  BY <1>1 DEF Push

(* A push that nobody waits for any more. *)
LEMMA Orphan ==
    ASSUME NEW p \in Push
    PROVE  LET q == [p EXCEPT !.by = None]
           IN /\ q \in Push /\ q.by = None /\ q.at = p.at /\ q.lines = p.lines
              /\ q.next = p.next /\ q.targets = p.targets /\ q.dead = p.dead
  BY DEF Push

(* Nothing has been read when the agent starts the run. *)
LEMMA InitInv == Init => Inv
<1> SUFFICES ASSUME Init PROVE Inv
  OBVIOUS
<1>1. LinesRead = {}
  <2> SUFFICES ASSUME NEW l \in Lines PROVE ~(l[2] <= read[l[1]])
    BY DEF LinesRead
  <2>1. PICK s \in Sources : l \in {s} \X (1..LinesOf[s])
    BY DEF Lines
  <2>2. l[1] = s /\ l[2] \in 1..LinesOf[s] /\ LinesOf[s] \in Nat
    BY <2>1, BoundsAssumption
  <2>3. QED
    BY <2>2 DEF Init
<1>2. TypeOK
  <2>1. /\ read \in [Sources -> Nat] /\ stored \in [Lines -> Nat]
        /\ task \in [Tasks -> {"reading", "gather", "flushing", "waiting", "ended", "raised"}]
    BY DEF Init
  <2>2. buffer \in Seq(Lines) /\ pushes \subseteq Push
    BY DEF Init
  <2>3. exited \in BOOLEAN
    BY DEF Init
  <2>4. /\ list \subseteq Subscribers /\ ws \in [Subscribers -> {"outside", "joined", "left"}]
        /\ gone \subseteq Subscribers /\ due \in [Subscribers -> SUBSET Lines] /\ faults \in Nat
        /\ unsent \subseteq Lines /\ lost \subseteq Lines
    BY DEF Init
  <2>5. QED
    BY <2>1, <2>2, <2>3, <2>4 DEF TypeOK
<1>3. \A l \in Lines : Single(l)
  BY <1>1 DEF Init, Single, InBuffer, OnItsWay
<1>4. WaitsOK
  BY Names DEF Init, WaitsOK
<1>5. DueOK
  BY DEF Init, DueOK
<1>6. QED
  BY <1>2, <1>3, <1>4, <1>5 DEF Inv

-----------------------------------------------------------------------------
(* Steps that move no line. *)
LEMMA SameLines ==
    ASSUME NEW l \in Lines, Single(l), UNCHANGED <<read, buffer, stored, lost>>,
           \A p : Carries(p, l) => (p \in pushes' <=> p \in pushes)
    PROVE  Single(l)'
<1>1. OnItsWay(l)' <=> OnItsWay(l)
  BY DEF OnItsWay, Carries
<1>2. InBuffer(l)' <=> InBuffer(l)
  BY DEF InBuffer
<1>3. \A p, q \in pushes' : Carries(p, l) /\ Carries(q, l) => p = q
  BY DEF Single
<1>4. LinesRead' = LinesRead
  BY DEF LinesRead
<1>5. QED
  BY <1>1, <1>2, <1>3, <1>4 DEF Single, Carries

(* A push that goes on with the same request, and one that ends. *)
LEMMA Goes ==
    ASSUME Inv, NEW p \in pushes, NEW q, q.by = p.by, Becomes(p, q), UNCHANGED agentVars
    PROVE  WaitsOK'
<1>1. pushes' = (pushes \ {p}) \cup {q} /\ task' = task /\ buffer' = buffer
  BY DEF Becomes, agentVars
<1>2. \A r \in pushes' : r.by # None => task'[r.by] = "flushing"
  BY <1>1 DEF Inv, WaitsOK
<1>3. \A r, t \in pushes' : r.by # None /\ r.by = t.by => r = t
  BY <1>1 DEF Inv, WaitsOK
<1>4. QED
  BY <1>1, <1>2, <1>3 DEF Inv, WaitsOK, Gathered

LEMMA Ends ==
    ASSUME Inv, NEW p \in pushes, Resume(p.by), buffer' = buffer,
           \A r \in pushes' : r.by = None \/ r \in pushes \ {p}
    PROVE  /\ task' \in [Tasks -> {"reading", "gather", "flushing", "waiting", "ended", "raised"}]
           /\ WaitsOK'
<1>1. p.by \in Tasks \cup {None}
  BY PushFacts DEF Inv
<1>2. /\ task \in [Tasks -> {"reading", "gather", "flushing", "waiting", "ended", "raised"}]
      /\ \A r \in pushes : r.by # None => r.by \in Tasks
  BY PushFacts DEF Inv, TypeOK
<1>3. \A r \in pushes' : r.by # None => r \in pushes /\ r.by # p.by /\ r.by \in Tasks
  BY <1>2 DEF Inv, WaitsOK
<1>4. \A t \in Tasks : t # p.by => task'[t] = task[t]
  BY <1>2 DEF Resume
<1>5. task' \in [Tasks -> {"reading", "gather", "flushing", "waiting", "ended", "raised"}]
  BY <1>2 DEF Resume
<1>6. \A r \in pushes' : r.by # None => task'[r.by] = "flushing"
  BY <1>3, <1>4 DEF Inv, WaitsOK
<1>7. \A r, t \in pushes' : r.by # None /\ r.by = t.by => r = t
  BY <1>3 DEF Inv, WaitsOK
<1>8. task'[Main] \in {"flushing", "waiting", "ended"} => buffer' = <<>> /\ Gathered'
  <2>1. CASE p.by = None
    <3>1. task' = task
      BY <2>1 DEF Resume
    <3>2. QED
      BY <3>1 DEF Inv, WaitsOK, Gathered
  <2>2. CASE p.by = Main
    <3>1. task[Main] = "flushing"
      BY <2>2, Names DEF Inv, WaitsOK
    <3>2. buffer = <<>> /\ Gathered
      BY <3>1 DEF Inv, WaitsOK
    <3>3. \A s \in Sources : task'[s] = task[s]
      BY <1>4, <2>2, Names
    <3>4. QED
      BY <3>2, <3>3 DEF Gathered
  <2>3. CASE p.by \in Sources
    <3>1. task[p.by] = "flushing"
      BY <2>3, Names DEF Inv, WaitsOK
    <3>2. ~Gathered
      BY <2>3, <3>1 DEF Gathered
    <3>3. task'[Main] = task[Main]
      BY <1>4, <2>3, Names
    <3>4. QED
      BY <3>2, <3>3 DEF Inv, WaitsOK
  <2>4. QED
    BY <1>1, <2>1, <2>2, <2>3 DEF Tasks
<1>9. QED
  BY <1>5, <1>6, <1>7, <1>8 DEF WaitsOK

(* Subscribers who wait for a line of a push, while the push goes on. *)
LEMMA Owed ==
    ASSUME Inv, NEW p \in pushes, NEW q, Becomes(p, q), UNCHANGED <<unsent, ws, gone>>,
           \A w \in list : w \in list' \/ w \in gone,
           q.dead \subseteq gone, q.at = "sent" => q.next = 1,
           \A w \in Subscribers : due'[w] \subseteq due[w],
           \A w \in Subscribers, k \in Nat :
              Brings(p, k, w) /\ p.lines[k] \in due'[w] =>
                 Brings(q, k, w) /\ q.lines[k] = p.lines[k]
    PROVE  DueOK'
<1>1. pushes' = (pushes \ {p}) \cup {q}
  BY DEF Becomes
<1>2. ASSUME NEW w \in Subscribers, NEW l \in due'[w] \ unsent'
      PROVE  \E r \in pushes' : \E k \in Nat : Brings(r, k, w) /\ r.lines[k] = l
  <2>1. PICK r \in pushes, k \in Nat : Brings(r, k, w) /\ r.lines[k] = l
    BY <1>2 DEF Inv, DueOK
  <2>2. CASE r = p
    <3>1. Brings(q, k, w) /\ q.lines[k] = l
      BY <1>2, <2>1, <2>2
    <3>2. QED
      BY <1>1, <3>1
  <2>3. CASE r # p
    BY <1>1, <2>1, <2>3
  <2>4. QED
    BY <2>2, <2>3
<1>3. \A w \in Subscribers : ws'[w] = "joined" /\ w \notin gone' => w \in list'
  BY DEF Inv, DueOK
<1>4. \A w \in Subscribers : due'[w] # {} => ws'[w] = "joined" /\ w \notin gone'
  BY DEF Inv, DueOK
<1>5. \A r \in pushes' : r.dead \subseteq gone' /\ (r.at = "sent" => r.next = 1)
  BY <1>1 DEF Inv, DueOK
<1>6. QED
  BY <1>2, <1>3, <1>4, <1>5 DEF DueOK, Brings

(* Steps of the subscribers and of the readers that touch no push. *)
LEMMA SamePushes ==
    ASSUME Inv, UNCHANGED <<pushes, unsent, due>>,
           \A w \in Subscribers : w \in list => w \in list' \/ w \in gone',
           \A w \in Subscribers : ws'[w] = "joined" /\ w \notin gone' =>
              w \in list' \/ (ws[w] = "joined" /\ w \notin gone),
           \A w \in Subscribers : due[w] # {} => ws'[w] = "joined" /\ w \notin gone',
           gone \subseteq gone'
    PROVE  DueOK'
<1>1. \A w \in Subscribers : ws'[w] = "joined" /\ w \notin gone' => w \in list'
  BY DEF Inv, DueOK
<1>2. QED
  BY <1>1 DEF Inv, DueOK, Brings

-----------------------------------------------------------------------------
(* The readers *)

(* The line that is read next goes to the end of the buffer. *)
LEMMA NextLine ==
    ASSUME Inv, NEW s \in Sources, read[s] < LinesOf[s], read' = [read EXCEPT ![s] = @ + 1],
           NEW new, new = <<s, read[s] + 1>>
    PROVE  /\ read' \in [Sources -> Nat] /\ new \in Lines /\ new \notin LinesRead
           /\ \A l \in Lines : l \in LinesRead' <=> l \in LinesRead \/ l = new
<1>1. read \in [Sources -> Nat] /\ LinesOf \in [Sources -> Nat]
  BY BoundsAssumption DEF Inv, TypeOK
<1>2. read[s] + 1 \in 1..LinesOf[s] /\ new[1] = s /\ new[2] = read[s] + 1
  BY <1>1
<1>3. new \in Lines
  BY <1>2 DEF Lines
<1>4. new \notin LinesRead
  BY <1>1, <1>2 DEF LinesRead
<1>5. ASSUME NEW l \in Lines PROVE l \in LinesRead' <=> l \in LinesRead \/ l = new
  <2>1. PICK t \in Sources : l \in {t} \X (1..LinesOf[t])
    BY DEF Lines
  <2>2. l = <<t, l[2]>> /\ l[1] = t /\ l[2] \in Nat
    BY <1>1, <2>1
  <2>3. CASE t = s
    <3>1. read'[t] = read[s] + 1 /\ read[s] \in Nat
      BY <1>1, <2>3
    <3>2. l[2] <= read[s] + 1 <=> l[2] <= read[s] \/ l[2] = read[s] + 1
      BY <2>2, <3>1
    <3>3. l = new <=> l[2] = read[s] + 1
      BY <1>2, <2>2, <2>3
    <3>4. QED
      BY <2>2, <2>3, <3>1, <3>2, <3>3 DEF LinesRead
  <2>4. CASE t # s
    <3>1. read'[t] = read[t] /\ l # new
      BY <1>1, <1>2, <2>2, <2>4
    <3>2. QED
      BY <2>2, <3>1 DEF LinesRead
  <2>5. QED
    BY <2>3, <2>4
<1>6. QED
  BY <1>1, <1>3, <1>4, <1>5

LEMMA Buffered ==
    ASSUME NEW new \in Lines, buffer \in Seq(Lines), NEW all, all = Append(buffer, new)
    PROVE  /\ all \in Seq(Lines) /\ Len(all) = Len(buffer) + 1 /\ Len(buffer) \in Nat
           /\ all[Len(all)] = new
           /\ \A i \in 1..Len(buffer) : all[i] = buffer[i]
           /\ \A l : Contains(all, l) <=> InBuffer(l) \/ l = new
<1>1. /\ all \in Seq(Lines) /\ Len(all) = Len(buffer) + 1 /\ Len(buffer) \in Nat
      /\ all[Len(all)] = new
      /\ \A i \in 1..Len(buffer) : all[i] = buffer[i]
  OBVIOUS
<1>2. \A i : i \in 1..Len(all) <=> i \in 1..Len(buffer) \/ i = Len(all)
  BY <1>1
<1>3. ASSUME NEW l PROVE Contains(all, l) <=> InBuffer(l) \/ l = new
  BY <1>1, <1>2 DEF Contains, InBuffer
<1>4. QED
  BY <1>1, <1>3

LEMMA PushBegins ==
    ASSUME Inv, NEW t \in Tasks, NEW all \in Seq(Lines), Flush(t, all),
           UNCHANGED <<exited, stored, unsent, lost, list, ws, gone, due, faults>>,
           read' \in [Sources -> Nat],
           \/ t \in Sources /\ task[t] = "reading"
           \/ t = Main /\ task[Main] = "gather" /\ Gathered,
           \A l \in Lines :
              /\ OnItsWay(l) \/ stored[l] = 1 \/ l \in lost => l \in LinesRead'
              /\ Contains(all, l) <=>
                    l \in LinesRead' /\ ~OnItsWay(l) /\ stored[l] = 0 /\ l \notin lost
    PROVE  Inv'
<1> DEFINE new == [by |-> t, at |-> "sent", lines |-> all, next |-> 1, targets |-> {}, dead |-> {}]
<1>1. pushes' = pushes \cup {new} /\ buffer' = <<>> /\ task' = [task EXCEPT ![t] = "flushing"]
  BY DEF Flush
<1>2. new \in Push
  BY DEF Push
<1>3. TypeOK'
  <2>1. pushes' \subseteq Push
    BY <1>1, <1>2 DEF Inv, TypeOK
  <2>2. task' \in [Tasks -> {"reading", "gather", "flushing", "waiting", "ended", "raised"}]
    BY <1>1 DEF Inv, TypeOK
  <2>3. buffer' \in Seq(Lines)
    BY <1>1
  <2>4. QED
    BY <2>1, <2>2, <2>3 DEF Inv, TypeOK
<1>4. /\ new.by = t /\ new.at = "sent" /\ new.lines = all /\ new.next = 1 /\ new.dead = {}
      /\ \A l : Carries(new, l) <=> Contains(all, l)
  BY DEF Carries
<1> HIDE DEF new
<1>5. ASSUME NEW l \in Lines PROVE Single(l)'
  <2>1. ~InBuffer(l)'
    BY <1>1 DEF InBuffer
  <2>2. OnItsWay(l)' <=> OnItsWay(l) \/ Contains(all, l)
    BY <1>1, <1>4 DEF OnItsWay, Carries
  <2>3. \A p, q \in pushes' : Carries(p, l) /\ Carries(q, l) => p = q
    <3> SUFFICES ASSUME NEW p \in pushes', NEW q \in pushes', Carries(p, l), Carries(q, l)
                 PROVE  p = q
      OBVIOUS
    <3>1. CASE OnItsWay(l)
      BY <1>1, <1>4, <3>1 DEF Inv, Single
    <3>2. CASE ~OnItsWay(l)
      BY <1>1, <3>2 DEF OnItsWay
    <3>3. QED
      BY <3>1, <3>2
  <2>4. Single(l)
    BY DEF Inv
  <2>5. \A i, j \in 1..Len(buffer') : buffer'[i] = l /\ buffer'[j] = l => i = j
    BY <1>1
  <2>6. OnItsWay(l)' => stored'[l] = 0 /\ l \notin lost'
    BY <2>2, <2>4 DEF Single
  <2>7. stored'[l] = 0 \/ (stored'[l] = 1 /\ l \notin lost')
    BY <2>4 DEF Single
  <2>8. l \in LinesRead' <=> InBuffer(l)' \/ OnItsWay(l)' \/ stored'[l] = 1 \/ l \in lost'
    BY <2>1, <2>2, <2>7
  <2>9. QED
    BY <2>1, <2>3, <2>5, <2>6, <2>7, <2>8 DEF Single, Carries
<1>6. WaitsOK'
  <2>1. /\ task \in [Tasks -> {"reading", "gather", "flushing", "waiting", "ended", "raised"}]
        /\ \A p \in pushes : p.by # None => p.by \in Tasks /\ p.by # t
    BY PushFacts DEF Inv, TypeOK, WaitsOK
  <2>2. task'[t] = "flushing" /\ \A u \in Tasks : u # t => task'[u] = task[u]
    BY <1>1, <2>1
  <2>3. \A p \in pushes' : p.by # None => task'[p.by] = "flushing"
    BY <1>1, <1>4, <2>1, <2>2 DEF Inv, WaitsOK
  <2>4. \A p, q \in pushes' : p.by # None /\ p.by = q.by => p = q
    BY <1>1, <1>4, <2>1 DEF Inv, WaitsOK
  <2>5. task'[Main] \in {"flushing", "waiting", "ended"} => Gathered'
    BY <2>2, Names DEF Inv, WaitsOK, Gathered
  <2>6. QED
    BY <1>1, <2>3, <2>4, <2>5 DEF WaitsOK
<1>7. DueOK'
  <2>1. \A p \in pushes' : p.dead \subseteq gone' /\ (p.at = "sent" => p.next = 1)
    BY <1>1, <1>4 DEF Inv, DueOK
  <2>2. pushes \subseteq pushes'
    BY <1>1
  <2>3. QED
    BY <2>1, <2>2 DEF Inv, DueOK, Brings
<1>8. QED
  BY <1>3, <1>5, <1>6, <1>7 DEF Inv

LEMMA ReadLineInv == ASSUME Inv, NEW s \in Sources, ReadLine(s) PROVE Inv'
<1> DEFINE new == <<s, read[s] + 1>>
           all == Append(buffer, new)
<1>1. /\ task[s] = "reading" /\ read[s] < LinesOf[s] /\ read' = [read EXCEPT ![s] = @ + 1]
      /\ UNCHANGED <<exited, stored, unsent, lost, list, ws, gone, due, faults>>
  BY DEF ReadLine, channelVars, databaseVars
<1>2. /\ read' \in [Sources -> Nat] /\ new \in Lines /\ new \notin LinesRead
      /\ \A l \in Lines : l \in LinesRead' <=> l \in LinesRead \/ l = new
  BY <1>1, NextLine
<1>3. buffer \in Seq(Lines) /\ s \in Tasks
  BY Names DEF Inv, TypeOK
<1> HIDE DEF new
<1>4. /\ all \in Seq(Lines) /\ Len(all) = Len(buffer) + 1 /\ Len(buffer) \in Nat
      /\ all[Len(all)] = new
      /\ \A i \in 1..Len(buffer) : all[i] = buffer[i]
      /\ \A l : Contains(all, l) <=> InBuffer(l) \/ l = new
  BY <1>2, <1>3, Buffered
<1>5. ~InBuffer(new) /\ ~OnItsWay(new) /\ stored[new] = 0 /\ new \notin lost
  BY <1>2 DEF Inv, Single
<1> HIDE DEF all
<1>6. CASE Flush(s, all)
  <2>1. ASSUME NEW l \in Lines
        PROVE  /\ OnItsWay(l) \/ stored[l] = 1 \/ l \in lost => l \in LinesRead'
               /\ Contains(all, l) <=>
                     l \in LinesRead' /\ ~OnItsWay(l) /\ stored[l] = 0 /\ l \notin lost
    BY <1>2, <1>4, <1>5 DEF Inv, Single
  <2>2. QED
    BY <1>1, <1>2, <1>3, <1>4, <1>6, <2>1, PushBegins
<1>7. CASE buffer' = all /\ UNCHANGED <<task, pushes>>
  <2>1. TypeOK'
    BY <1>1, <1>2, <1>4, <1>7 DEF Inv, TypeOK
  <2>2. ASSUME NEW l \in Lines PROVE Single(l)'
    <3>1. Single(l)
      BY DEF Inv
    <3>2. InBuffer(l)' <=> InBuffer(l) \/ l = new
      BY <1>4, <1>7 DEF InBuffer, Contains
    <3>3. OnItsWay(l)' <=> OnItsWay(l)
      BY <1>7 DEF OnItsWay, Carries
    <3>4. ASSUME NEW i \in 1..Len(all), NEW j \in 1..Len(all), all[i] = l, all[j] = l
          PROVE  i = j
      <4>1. CASE l = new
        <5>1. \A k \in 1..Len(buffer) : all[k] # l
          BY <1>4, <1>5, <4>1 DEF InBuffer
        <5>2. QED
          BY <1>4, <3>4, <5>1
      <4>2. CASE l # new
        <5>1. i \in 1..Len(buffer) /\ j \in 1..Len(buffer)
          BY <1>4, <3>4, <4>2
        <5>2. QED
          BY <1>4, <3>1, <3>4, <5>1 DEF Single
      <4>3. QED
        BY <4>1, <4>2
    <3>5. l = new => ~OnItsWay(l) /\ stored[l] = 0 /\ l \notin lost
      BY <1>5
    <3>6. l \in LinesRead' <=> l \in LinesRead \/ l = new
      BY <1>2
    <3>7. \A p, q \in pushes' : Carries(p, l) /\ Carries(q, l) => p = q
      BY <1>7, <3>1 DEF Single
    <3>8. stored' = stored /\ lost' = lost
      BY <1>1
    <3>9. QED
      BY <1>7, <3>1, <3>2, <3>3, <3>4, <3>5, <3>6, <3>7, <3>8 DEF Single, Carries
  <2>3. WaitsOK'
    <3>1. ~Gathered
      BY <1>1 DEF Gathered
    <3>2. QED
      BY <1>7, <3>1 DEF Inv, WaitsOK
  <2>4. DueOK'
    BY <1>1, <1>7, SamePushes DEF Inv, DueOK
  <2>5. QED
    BY <2>1, <2>2, <2>3, <2>4 DEF Inv
<1>8. QED
  BY <1>6, <1>7 DEF ReadLine, all, new

(* The ends of the streams *)
LEMMA StreamInv ==
    ASSUME Inv, NEW s \in Sources, EndOfStream(s) \/ StreamBreaks(s)
    PROVE  Inv'
<1>1. /\ task[s] = "reading" /\ faults' \in Nat
      /\ UNCHANGED <<read, buffer, exited, pushes, stored, unsent, lost, list, ws, gone, due>>
      /\ \/ task' = [task EXCEPT ![s] = "ended"]
         \/ task' = [task EXCEPT ![s] = "raised", ![Main] = IF @ = "gather" THEN "raised" ELSE @]
  BY DEF EndOfStream, StreamBreaks, Fault, Inv, TypeOK, channelVars, databaseVars
<1>2. task \in [Tasks -> {"reading", "gather", "flushing", "waiting", "ended", "raised"}]
  BY DEF Inv, TypeOK
<1>3. ~Gathered
  BY <1>1 DEF Gathered
<1>4. task[Main] \notin {"flushing", "waiting", "ended"}
  BY <1>3 DEF Inv, WaitsOK
<1>5. /\ task' \in [Tasks -> {"reading", "gather", "flushing", "waiting", "ended", "raised"}]
      /\ task'[Main] \notin {"flushing", "waiting", "ended"}
      /\ \A t \in Tasks : task[t] = "flushing" => task'[t] = "flushing"
  BY <1>1, <1>2, <1>4, Names
<1>6. TypeOK'
  BY <1>1, <1>5 DEF Inv, TypeOK
<1>7. \A l \in Lines : Single(l)'
  BY <1>1, SameLines DEF Inv
<1>8. WaitsOK'
  <2>1. \A p \in pushes : p.by # None => p.by \in Tasks
    BY PushFacts DEF Inv
  <2>2. QED
    BY <1>1, <1>5, <2>1 DEF Inv, WaitsOK
<1>9. DueOK'
  BY <1>1, SamePushes DEF Inv, DueOK
<1>10. QED
  BY <1>6, <1>7, <1>8, <1>9 DEF Inv

LEMMA FinalFlushInv == ASSUME Inv, FinalFlush PROVE Inv'
<1>1. /\ task[Main] = "gather" /\ Gathered
      /\ UNCHANGED <<read, exited, stored, unsent, lost, list, ws, gone, due, faults>>
  BY DEF FinalFlush, channelVars, databaseVars
<1>2. CASE Flush(Main, buffer)
  <2>1. buffer \in Seq(Lines) /\ Main \in Tasks /\ read' \in [Sources -> Nat]
    BY <1>1, Names DEF Inv, TypeOK
  <2>2. LinesRead' = LinesRead
    BY <1>1 DEF LinesRead
  <2>3. ASSUME NEW l \in Lines
        PROVE  /\ OnItsWay(l) \/ stored[l] = 1 \/ l \in lost => l \in LinesRead'
               /\ Contains(buffer, l) <=>
                     l \in LinesRead' /\ ~OnItsWay(l) /\ stored[l] = 0 /\ l \notin lost
    <3>1. Contains(buffer, l) <=> InBuffer(l)
      BY DEF Contains, InBuffer
    <3>2. Single(l)
      BY DEF Inv
    <3>3. QED
      BY <2>2, <3>1, <3>2 DEF Single
  <2>4. QED
    BY <1>1, <1>2, <2>1, <2>3, PushBegins
<1>3. CASE /\ buffer = <<>> /\ task' = [task EXCEPT ![Main] = "waiting"]
           /\ UNCHANGED <<buffer, pushes>>
  <2>1. TypeOK'
    BY <1>1, <1>3 DEF Inv, TypeOK
  <2>2. \A l \in Lines : Single(l)'
    BY <1>1, <1>3, SameLines DEF Inv
  <2>3. WaitsOK'
    <3>1. \A p \in pushes : p.by # None => p.by \in Tasks /\ p.by # Main
      BY <1>1, PushFacts DEF Inv, WaitsOK
    <3>2. \A t \in Tasks : t # Main => task'[t] = task[t]
      BY <1>3 DEF Inv, TypeOK
    <3>3. Gathered'
      BY <1>1, <3>2, Names DEF Gathered
    <3>4. QED
      BY <1>3, <3>1, <3>2, <3>3 DEF Inv, WaitsOK
  <2>4. DueOK'
    BY <1>1, <1>3, SamePushes DEF Inv, DueOK
  <2>5. QED
    BY <2>1, <2>2, <2>3, <2>4 DEF Inv
<1>4. QED
  BY <1>2, <1>3 DEF FinalFlush

(* The subprocess exits, and stream() returns. *)
LEMMA ExitInv == ASSUME Inv, ProcessExits \/ WaitReturns PROVE Inv'
<1>1. /\ UNCHANGED <<read, buffer, pushes, stored, unsent, lost, list, ws, gone, due, faults>>
      /\ exited' \in BOOLEAN
      /\ \/ task' = task
         \/ task[Main] = "waiting" /\ task' = [task EXCEPT ![Main] = "ended"]
  BY DEF ProcessExits, WaitReturns, Inv, TypeOK, channelVars, databaseVars
<1>2. TypeOK'
  BY <1>1 DEF Inv, TypeOK
<1>3. \A l \in Lines : Single(l)'
  BY <1>1, SameLines DEF Inv
<1>4. WaitsOK'
  <2>1. CASE task' = task
    BY <1>1, <2>1 DEF Inv, WaitsOK, Gathered
  <2>2. CASE task[Main] = "waiting" /\ task' = [task EXCEPT ![Main] = "ended"]
    <3>1. \A p \in pushes : p.by # None => p.by \in Tasks /\ p.by # Main
      BY <2>2, PushFacts DEF Inv, WaitsOK
    <3>2. \A t \in Tasks : t # Main => task'[t] = task[t]
      BY <2>2 DEF Inv, TypeOK
    <3>3. Gathered' /\ buffer = <<>>
      BY <2>2, <3>2, Names DEF Inv, WaitsOK, Gathered
    <3>4. QED
      BY <1>1, <3>1, <3>2, <3>3 DEF Inv, WaitsOK
  <2>3. QED
    BY <1>1, <2>1, <2>2
<1>5. DueOK'
  BY <1>1, SamePushes DEF Inv, DueOK
<1>6. QED
  BY <1>2, <1>3, <1>4, <1>5 DEF Inv

(* The agent gives up: its task goes on, and so does the request. *)
LEMMA GiveUpInv == ASSUME Inv, NEW p \in pushes, GiveUp(p) PROVE Inv'
<1> DEFINE q == [p EXCEPT !.by = None]
<1>1. /\ Becomes(p, q) /\ pushes' = (pushes \ {p}) \cup {q} /\ Resume(p.by) /\ faults' \in Nat
      /\ UNCHANGED <<read, buffer, exited, stored, unsent, lost, list, ws, gone, due>>
  BY DEF GiveUp, Becomes, Fault, Inv, TypeOK, channelVars, databaseVars
<1>2. /\ q \in Push /\ q.by = None /\ q.at = p.at /\ q.lines = p.lines
      /\ q.next = p.next /\ q.targets = p.targets /\ q.dead = p.dead
  BY PushFacts, Orphan DEF Inv
<1> HIDE DEF q
<1>3. /\ task' \in [Tasks -> {"reading", "gather", "flushing", "waiting", "ended", "raised"}]
      /\ WaitsOK'
  BY <1>1, <1>2, Ends
<1>4. TypeOK'
  <2>1. pushes' \subseteq Push
    BY <1>1, <1>2 DEF Inv, TypeOK
  <2>2. QED
    BY <1>1, <1>3, <2>1 DEF Inv, TypeOK
<1>5. ASSUME NEW l \in Lines PROVE Single(l)'
  <2>1. Single(l)
    BY DEF Inv
  <2>2. Carries(q, l) <=> Carries(p, l)
    BY <1>2 DEF Carries
  <2>3. OnItsWay(l)' <=> OnItsWay(l)
    BY <1>1, <2>2 DEF OnItsWay, Carries
  <2>4. \A r, t \in pushes' : Carries(r, l) /\ Carries(t, l) => r = t
    BY <1>1, <2>1, <2>2 DEF Single
  <2>5. (InBuffer(l)' <=> InBuffer(l)) /\ LinesRead' = LinesRead
    BY <1>1 DEF InBuffer, LinesRead
  <2>6. QED
    BY <1>1, <2>1, <2>3, <2>4, <2>5 DEF Single, Carries
<1>6. DueOK'
  <2>1. q.dead \subseteq gone /\ (q.at = "sent" => q.next = 1)
    BY <1>2 DEF Inv, DueOK
  <2>2. \A w \in Subscribers, k \in Nat : Brings(p, k, w) => Brings(q, k, w)
    BY <1>2 DEF Brings
  <2>3. QED
    BY <1>1, <1>2, <2>1, <2>2, Owed
<1>7. QED
  BY <1>4, <1>5, <1>3, <1>6 DEF Inv

-----------------------------------------------------------------------------
(* The orchestrator *)

(* The lines of a push that has not been handled are nowhere else. *)
LEMMA Arriving ==
    ASSUME Inv, NEW p \in pushes, p.at = "sent", NEW l \in Lines
    PROVE  /\ Contains(p.lines, l) => /\ Carries(p, l) /\ stored[l] = 0 /\ l \notin lost
                                      /\ ~InBuffer(l) /\ l \in LinesRead
                                      /\ \A r \in pushes \ {p} : ~Carries(r, l)
           /\ Contains(p.lines, l) <=> l \in ToSet(p.lines)
<1>1. p.lines \in Seq(Lines)
  BY PushFacts DEF Inv
<1>2. Contains(p.lines, l) <=> l \in ToSet(p.lines)
  BY <1>1 DEF Contains, ToSet
<1>3. ASSUME Contains(p.lines, l)
      PROVE  /\ Carries(p, l) /\ stored[l] = 0 /\ l \notin lost
             /\ ~InBuffer(l) /\ l \in LinesRead
             /\ \A r \in pushes \ {p} : ~Carries(r, l)
  <2>1. Carries(p, l) /\ OnItsWay(l)
    BY <1>3 DEF Carries, OnItsWay
  <2>2. Single(l)
    BY DEF Inv
  <2>3. QED
    BY <2>1, <2>2 DEF Single
<1>4. QED
  BY <1>2, <1>3

LEMMA StoreInv == ASSUME Inv, NEW p \in pushes, Store(p) PROVE Inv'
<1> DEFINE q == [p EXCEPT !.at = "stored"]
<1>1. /\ p.at = "sent" /\ Becomes(p, q) /\ pushes' = (pushes \ {p}) \cup {q}
      /\ stored' = [l \in Lines |-> stored[l] + (IF Contains(p.lines, l) THEN 1 ELSE 0)]
      /\ due' = [w \in Subscribers |->
                   IF ws[w] = "joined" /\ w \notin gone THEN due[w] \cup ToSet(p.lines) ELSE {}]
      /\ UNCHANGED <<read, task, buffer, exited, unsent, lost, list, ws, gone, faults>>
  BY DEF Store, Becomes, agentVars, channelVars, databaseVars
<1>2. /\ q \in Push /\ q.by = p.by /\ q.at = "stored" /\ q.lines = p.lines /\ q.next = p.next
      /\ q.dead = p.dead /\ p.lines \in Seq(Lines) /\ Len(p.lines) \in Nat /\ p \in Push
  BY PushFacts DEF Inv, Push
<1> HIDE DEF q
<1>3. TypeOK'
  <2>1. pushes' \subseteq Push
    BY <1>1, <1>2 DEF Inv, TypeOK
  <2>2. stored' \in [Lines -> Nat]
    BY <1>1 DEF Inv, TypeOK
  <2>3. ToSet(p.lines) \subseteq Lines
    BY <1>2 DEF ToSet
  <2>4. due' \in [Subscribers -> SUBSET Lines]
    BY <1>1, <2>3 DEF Inv, TypeOK
  <2>5. QED
    BY <1>1, <2>1, <2>2, <2>4 DEF Inv, TypeOK
<1>4. ASSUME NEW l \in Lines PROVE Single(l)'
  <2>1. Single(l) /\ stored[l] \in Nat
    BY DEF Inv, TypeOK
  <2>2. (InBuffer(l)' <=> InBuffer(l)) /\ LinesRead' = LinesRead
    BY <1>1 DEF InBuffer, LinesRead
  <2>3. ~Carries(q, l)
    BY <1>2 DEF Carries
  <2>4. \A r \in pushes' : Carries(r, l) => r \in pushes \ {p}
    BY <1>1, <2>3
  <2>5. \A r, t \in pushes' : Carries(r, l) /\ Carries(t, l) => r = t
    BY <2>1, <2>4 DEF Single
  <2>6. CASE Contains(p.lines, l)
    <3>1. /\ stored'[l] = 1 /\ l \notin lost /\ ~InBuffer(l) /\ l \in LinesRead
          /\ \A r \in pushes \ {p} : ~Carries(r, l)
      BY <1>1, <2>6, Arriving
    <3>2. ~OnItsWay(l)'
      BY <2>4, <3>1 DEF OnItsWay, Carries
    <3>3. QED
      BY <1>1, <2>2, <2>5, <3>1, <3>2, <2>1 DEF Single, Carries
  <2>7. CASE ~Contains(p.lines, l)
    <3>1. stored'[l] = stored[l]
      BY <1>1, <2>1, <2>7
    <3>2. OnItsWay(l)' <=> OnItsWay(l)
      BY <1>1, <2>3, <2>7 DEF OnItsWay, Carries
    <3>3. QED
      BY <1>1, <2>1, <2>2, <2>5, <3>1, <3>2 DEF Single, Carries
  <2>8. QED
    BY <2>6, <2>7
<1>5. WaitsOK'
  BY <1>1, <1>2, Goes DEF agentVars
<1>6. DueOK'
  <2>1. p.next = 1 /\ p.dead \subseteq gone
    BY <1>1 DEF Inv, DueOK
  <2>2. ASSUME NEW w \in Subscribers, NEW l \in due'[w] \ unsent'
        PROVE  \E r \in pushes' : \E k \in Nat : Brings(r, k, w) /\ r.lines[k] = l
    <3>1. CASE l \in due[w] \ unsent
      <4>1. PICK r \in pushes, k \in Nat : Brings(r, k, w) /\ r.lines[k] = l
        BY <3>1 DEF Inv, DueOK
      <4>2. r # p
        BY <1>1, <4>1 DEF Brings
      <4>3. QED
        BY <1>1, <4>1, <4>2
    <3>2. CASE l \in ToSet(p.lines)
      <4>1. PICK k \in 1..Len(p.lines) : p.lines[k] = l
        BY <1>2, <3>2 DEF ToSet
      <4>2. Brings(q, k, w) /\ q.lines[k] = l /\ k \in Nat
        BY <1>2, <2>1, <4>1 DEF Brings
      <4>3. QED
        BY <1>1, <4>2
    <3>3. QED
      BY <1>1, <2>2, <3>1, <3>2
  <2>3. \A w \in Subscribers : due'[w] # {} => ws'[w] = "joined" /\ w \notin gone'
    BY <1>1
  <2>4. \A r \in pushes' : r.dead \subseteq gone' /\ (r.at = "sent" => r.next = 1)
    BY <1>1, <1>2, <2>1 DEF Inv, DueOK
  <2>5. QED
    BY <1>1, <2>2, <2>3, <2>4 DEF Inv, DueOK, Brings
<1>7. QED
  BY <1>3, <1>4, <1>5, <1>6 DEF Inv

(* The lines of a handler that fails after its commit stay in the database, and are owed. *)
LEMMA RefreshFailsInv == ASSUME Inv, NEW p \in pushes, RefreshFails(p) PROVE Inv'
<1>1. /\ p.at = "stored" /\ pushes' = pushes \ {p} /\ Resume(p.by) /\ faults' \in Nat
      /\ unsent' = unsent \cup ToSet(p.lines)
      /\ UNCHANGED <<read, buffer, exited, stored, lost, list, ws, gone, due>>
  BY DEF RefreshFails, Fault, Inv, TypeOK, channelVars
<1>2. p.lines \in Seq(Lines) /\ p.next \in Nat /\ Len(p.lines) \in Nat /\ p.next = 1
  BY PushFacts DEF Inv, RefreshFails
<1>3. /\ task' \in [Tasks -> {"reading", "gather", "flushing", "waiting", "ended", "raised"}]
      /\ WaitsOK'
  BY <1>1, Ends
<1>4. TypeOK'
  <2>1. ToSet(p.lines) \subseteq Lines
    BY <1>2 DEF ToSet
  <2>2. QED
    BY <1>1, <1>3, <2>1 DEF Inv, TypeOK
<1>5. ASSUME NEW l \in Lines PROVE Single(l)'
  <2>1. \A r : Carries(r, l) => (r \in pushes' <=> r \in pushes)
    BY <1>1 DEF Carries
  <2>2. QED
    BY <1>1, <2>1, SameLines DEF Inv
<1>6. DueOK'
  <2>1. ASSUME NEW k \in Nat, NEW w \in Subscribers, Brings(p, k, w) PROVE p.lines[k] \in unsent'
    BY <1>1, <1>2, <2>1 DEF Brings, ToSet
  <2>2. QED
    BY <1>1, <2>1 DEF Inv, DueOK, Brings
<1>7. QED
  BY <1>3, <1>4, <1>5, <1>6 DEF Inv

LEMMA RefuseInv == ASSUME Inv, NEW p \in pushes, Refuse(p) PROVE Inv'
<1>1. /\ p.at = "sent" /\ pushes' = pushes \ {p} /\ lost' = lost \cup ToSet(p.lines)
      /\ Resume(p.by) /\ faults' \in Nat
      /\ UNCHANGED <<read, buffer, exited, stored, unsent, list, ws, gone, due>>
  BY DEF Refuse, Fault, Inv, TypeOK, channelVars, databaseVars
<1>2. p.lines \in Seq(Lines)
  BY PushFacts DEF Inv
<1>3. /\ task' \in [Tasks -> {"reading", "gather", "flushing", "waiting", "ended", "raised"}]
      /\ WaitsOK'
  BY <1>1, Ends
<1>4. TypeOK'
  <2>1. ToSet(p.lines) \subseteq Lines
    BY <1>2 DEF ToSet
  <2>2. QED
    BY <1>1, <1>3, <2>1 DEF Inv, TypeOK
<1>5. ASSUME NEW l \in Lines PROVE Single(l)'
  <2>1. Single(l)
    BY DEF Inv
  <2>2. (InBuffer(l)' <=> InBuffer(l)) /\ LinesRead' = LinesRead
    BY <1>1 DEF InBuffer, LinesRead
  <2>3. \A r, t \in pushes' : Carries(r, l) /\ Carries(t, l) => r = t
    BY <1>1, <2>1 DEF Single
  <2>4. CASE Contains(p.lines, l)
    <3>1. /\ l \in lost' /\ stored[l] = 0 /\ ~InBuffer(l) /\ l \in LinesRead
          /\ \A r \in pushes \ {p} : ~Carries(r, l)
      BY <1>1, <2>4, Arriving
    <3>2. ~OnItsWay(l)'
      BY <1>1, <3>1 DEF OnItsWay, Carries
    <3>3. QED
      BY <1>1, <2>1, <2>2, <2>3, <3>1, <3>2 DEF Single, Carries
  <2>5. CASE ~Contains(p.lines, l)
    <3>1. l \in lost' <=> l \in lost
      BY <1>1, <2>5, Arriving
    <3>2. OnItsWay(l)' <=> OnItsWay(l)
      BY <1>1, <2>5 DEF OnItsWay, Carries
    <3>3. QED
      BY <1>1, <2>1, <2>2, <2>3, <3>1, <3>2 DEF Single, Carries
  <2>6. QED
    BY <2>4, <2>5
<1>6. DueOK'
  <2>1. \A k, w : ~Brings(p, k, w)
    BY <1>1 DEF Brings
  <2>2. QED
    BY <1>1, <2>1 DEF Inv, DueOK, Brings
<1>7. QED
  BY <1>3, <1>4, <1>5, <1>6 DEF Inv

(* A broadcast goes on; its lines are in the database already. *)
LEMMA BroadcastGoes ==
    ASSUME Inv, NEW p \in pushes, NEW q \in Push, Becomes(p, q), p.at # "sent", q.at # "sent",
           q.by = p.by, q.dead \subseteq gone,
           UNCHANGED <<agentVars, stored, unsent, lost, ws, gone, faults>>,
           list' \subseteq list, \A w \in list : w \in list' \/ w \in gone,
           due' \in [Subscribers -> SUBSET Lines], \A w \in Subscribers : due'[w] \subseteq due[w],
           \A w \in Subscribers, k \in Nat :
              Brings(p, k, w) /\ p.lines[k] \in due'[w] =>
                 Brings(q, k, w) /\ q.lines[k] = p.lines[k]
    PROVE  Inv'
<1>1. pushes' = (pushes \ {p}) \cup {q} /\ UNCHANGED <<read, task, buffer, exited>>
  BY DEF Becomes, agentVars
<1>2. TypeOK'
  <2>1. pushes' \subseteq Push
    BY <1>1 DEF Inv, TypeOK
  <2>2. QED
    BY <1>1, <2>1 DEF Inv, TypeOK
<1>3. ASSUME NEW l \in Lines PROVE Single(l)'
  <2>1. \A r : Carries(r, l) => (r \in pushes' <=> r \in pushes)
    BY <1>1 DEF Carries
  <2>2. QED
    BY <1>1, <2>1, SameLines DEF Inv
<1>4. WaitsOK'
  BY Goes
<1>5. DueOK'
  BY Owed
<1>6. QED
  BY <1>2, <1>3, <1>4, <1>5 DEF Inv

LEMMA SnapshotInv == ASSUME Inv, NEW p \in pushes, Snapshot(p) PROVE Inv'
<1> DEFINE q == [p EXCEPT !.at = "sending", !.targets = list]
<1>1. /\ p.at = "stored" /\ Becomes(p, q)
      /\ UNCHANGED <<agentVars, stored, unsent, lost, list, ws, gone, due, faults>>
  BY DEF Snapshot, channelVars, databaseVars
<1>2. /\ list \subseteq Subscribers /\ due \in [Subscribers -> SUBSET Lines]
      /\ p \in Push /\ p.dead \subseteq gone
  BY PushFacts DEF Inv, TypeOK, DueOK
<1>3. /\ q \in Push /\ q.by = p.by /\ q.at = "sending" /\ q.targets = list
      /\ q.next = p.next /\ q.lines = p.lines /\ q.dead = p.dead
  BY <1>2 DEF Push
<1> HIDE DEF q
<1>4. ASSUME NEW w \in Subscribers, NEW k \in Nat, Brings(p, k, w), p.lines[k] \in due'[w]
      PROVE  Brings(q, k, w) /\ q.lines[k] = p.lines[k]
  <2>1. w \in list
    BY <1>1, <1>4 DEF Inv, DueOK
  <2>2. QED
    BY <1>3, <1>4, <2>1 DEF Brings
<1>5. QED
  BY <1>1, <1>2, <1>3, <1>4, BroadcastGoes

LEMMA SendInv == ASSUME Inv, NEW p \in pushes, Send(p) PROVE Inv'
<1>1. PICK w \in p.targets :
         /\ Becomes(p, Sent(p, w))
         /\ due' = IF w \in gone THEN due ELSE [due EXCEPT ![w] = @ \ {p.lines[p.next]}]
  BY DEF Send
<1> DEFINE q == Sent(p, w)
<1>2. /\ p.at = "sending" /\ w \in Subscribers
      /\ UNCHANGED <<agentVars, stored, unsent, lost, list, ws, gone, faults>>
  BY PushFacts DEF Send, channelVars, databaseVars, Inv
<1>3. /\ due \in [Subscribers -> SUBSET Lines] /\ p \in Push /\ p.dead \subseteq gone
  BY PushFacts DEF Inv, TypeOK, DueOK
<1>4. /\ q \in Push /\ q.by = p.by /\ q.at = "sending" /\ q.targets = p.targets \ {w}
      /\ q.next = p.next /\ q.lines = p.lines /\ q.dead = p.dead \cup ({w} \cap gone)
  BY <1>2, <1>3 DEF Push, Sent
<1>5. Becomes(p, q)
  BY <1>1
<1> HIDE DEF q
<1>6. due' \in [Subscribers -> SUBSET Lines] /\ \A v \in Subscribers : due'[v] \subseteq due[v]
  BY <1>1, <1>2, <1>3
<1>7. ASSUME NEW v \in Subscribers, NEW k \in Nat, Brings(p, k, v), p.lines[k] \in due'[v]
      PROVE  Brings(q, k, v) /\ q.lines[k] = p.lines[k]
  <2>1. CASE v # w \/ k # p.next
    BY <1>2, <1>4, <1>7, <2>1 DEF Brings
  <2>2. CASE v = w /\ k = p.next
    <3>1. p.lines[k] \in due[w]
      BY <1>6, <1>7, <2>2
    <3>2. w \notin gone
      BY <1>2, <3>1 DEF Inv, DueOK
    <3>3. p.lines[k] \notin due'[w]
      BY <1>1, <1>2, <1>3, <2>2, <3>2
    <3>4. QED
      BY <1>7, <2>2, <3>3
  <2>3. QED
    BY <2>1, <2>2
<1>8. QED
  BY <1>2, <1>3, <1>4, <1>5, <1>6, <1>7, BroadcastGoes

LEMMA BroadcastedInv == ASSUME Inv, NEW p \in pushes, Broadcasted(p) PROVE Inv'
<1> DEFINE q == [p EXCEPT !.at = "stored", !.next = @ + 1, !.dead = {}]
<1>1. /\ p.at = "sending" /\ p.targets = {} /\ Becomes(p, q) /\ list' = list \ p.dead
      /\ UNCHANGED <<agentVars, stored, unsent, lost, ws, gone, due, faults>>
  BY DEF Broadcasted, databaseVars
<1>2. /\ due \in [Subscribers -> SUBSET Lines] /\ p \in Push /\ p.dead \subseteq gone
      /\ p.next \in Nat /\ Len(p.lines) \in Nat
  BY PushFacts DEF Inv, TypeOK, DueOK
<1>3. /\ q \in Push /\ q.by = p.by /\ q.at = "stored" /\ q.next = p.next + 1
      /\ q.lines = p.lines /\ q.dead = {}
  <2>1. p.next + 1 \in Nat
    BY <1>2
  <2>2. q = [p EXCEPT !.at = "stored", !.next = p.next + 1, !.dead = {}]
    BY <1>2 DEF Push
  <2>3. QED
    BY <1>2, <2>1, <2>2 DEF Push
<1> HIDE DEF q
<1>4. ASSUME NEW w \in Subscribers, NEW k \in Nat, Brings(p, k, w)
      PROVE  Brings(q, k, w) /\ q.lines[k] = p.lines[k]
  <2>1. k # p.next
    BY <1>1, <1>4 DEF Brings
  <2>2. k \in q.next..Len(q.lines)
    BY <1>2, <1>3, <1>4, <2>1 DEF Brings
  <2>3. QED
    BY <1>3, <2>2 DEF Brings
<1>5. QED
  BY <1>1, <1>2, <1>3, <1>4, BroadcastGoes

LEMMA ReplyInv == ASSUME Inv, NEW p \in pushes, Reply(p) PROVE Inv'
<1>1. /\ p.at = "stored" /\ p.next > Len(p.lines) /\ pushes' = pushes \ {p} /\ Resume(p.by)
      /\ UNCHANGED <<read, buffer, exited, stored, unsent, lost, list, ws, gone, due, faults>>
  BY DEF Reply, channelVars, databaseVars
<1>2. /\ task' \in [Tasks -> {"reading", "gather", "flushing", "waiting", "ended", "raised"}]
      /\ WaitsOK'
  BY <1>1, Ends
<1>3. TypeOK'
  BY <1>1, <1>2 DEF Inv, TypeOK
<1>4. ASSUME NEW l \in Lines PROVE Single(l)'
  <2>1. \A r : Carries(r, l) => (r \in pushes' <=> r \in pushes)
    BY <1>1 DEF Carries
  <2>2. QED
    BY <1>1, <2>1, SameLines DEF Inv
<1>5. DueOK'
  <2>1. \A k \in Nat, w \in Subscribers : ~Brings(p, k, w)
    <3>1. p.next \in Nat /\ Len(p.lines) \in Nat
      BY PushFacts DEF Inv
    <3>2. QED
      BY <1>1, <3>1 DEF Brings
  <2>2. QED
    BY <1>1, <2>1 DEF Inv, DueOK, Brings
<1>6. QED
  BY <1>2, <1>3, <1>4, <1>5 DEF Inv

(* Subscribers come and go. *)
LEMMA SubscriberInv ==
    ASSUME Inv, NEW w \in Subscribers, Join(w) \/ GoAway(w) \/ Leave(w)
    PROVE  Inv'
<1>1. UNCHANGED <<read, task, buffer, exited, pushes, stored, unsent, lost>>
  BY DEF Join, GoAway, Leave, agentVars, databaseVars
<1>2. /\ ws \in [Subscribers -> {"outside", "joined", "left"}] /\ list \subseteq Subscribers
      /\ gone \subseteq Subscribers /\ due \in [Subscribers -> SUBSET Lines] /\ faults \in Nat
  BY DEF Inv, TypeOK
<1>3. TypeOK'
  <2>1. /\ ws' \in [Subscribers -> {"outside", "joined", "left"}] /\ list' \subseteq Subscribers
        /\ gone' \subseteq Subscribers /\ due' \in [Subscribers -> SUBSET Lines]
        /\ faults' \in Nat
    BY <1>2 DEF Join, GoAway, Leave, Fault
  <2>2. QED
    BY <1>1, <2>1 DEF Inv, TypeOK
<1>4. \A l \in Lines : Single(l)'
  BY <1>1, SameLines DEF Inv
<1>5. WaitsOK'
  BY <1>1 DEF Inv, WaitsOK, Gathered
<1>6. DueOK'
  <2>1. CASE Join(w)
    <3>1. UNCHANGED <<pushes, unsent, due, gone>> /\ ws[w] = "outside"
      BY <1>1, <2>1 DEF Join
    <3>2. list \subseteq list' /\ ws' \in [Subscribers -> {"outside", "joined", "left"}]
      BY <1>2, <2>1 DEF Join
    <3>3. \A v \in Subscribers : v # w => ws'[v] = ws[v]
      BY <1>2, <2>1 DEF Join
    <3>4. ws'[w] = "joined" => w \in list'
      BY <1>2, <2>1 DEF Join
    <3>5. \A v \in Subscribers : due[v] # {} => v # w /\ ws[v] = "joined" /\ v \notin gone
      BY <3>1 DEF Inv, DueOK
    <3>6. QED
      BY <3>1, <3>2, <3>3, <3>4, <3>5, SamePushes
  <2>2. CASE GoAway(w)
    <3>1. /\ gone' = gone \cup {w} /\ due' = [due EXCEPT ![w] = {}]
          /\ UNCHANGED <<pushes, unsent, list, ws>>
      BY <1>1, <2>2 DEF GoAway
    <3>2. due'[w] = {} /\ \A v \in Subscribers : v # w => due'[v] = due[v]
      BY <1>2, <3>1
    <3>3. ASSUME NEW v \in Subscribers, NEW l \in due'[v] \ unsent'
          PROVE  \E p \in pushes' : \E k \in Nat : Brings(p, k, v) /\ p.lines[k] = l
      BY <3>1, <3>2, <3>3 DEF Inv, DueOK
    <3>4. \A v \in Subscribers : due'[v] # {} => ws'[v] = "joined" /\ v \notin gone'
      BY <3>1, <3>2 DEF Inv, DueOK
    <3>5. QED
      BY <3>1, <3>3, <3>4 DEF Inv, DueOK, Brings
  <2>3. CASE Leave(w)
    <3>1. /\ list' = list \ {w} /\ ws' = [ws EXCEPT ![w] = "left"] /\ w \in gone
          /\ UNCHANGED <<pushes, unsent, due, gone>>
      BY <1>1, <2>3 DEF Leave
    <3>2. \A v \in Subscribers : v # w => ws'[v] = ws[v]
      BY <1>2, <3>1
    <3>3. \A v \in Subscribers : due[v] # {} => v # w /\ ws[v] = "joined" /\ v \notin gone
      BY <3>1 DEF Inv, DueOK
    <3>4. ws'[w] = "left"
      BY <1>2, <3>1
    <3>5. QED
      BY <3>1, <3>2, <3>3, <3>4, SamePushes
  <2>4. QED
    BY <2>1, <2>2, <2>3
<1>7. QED
  BY <1>3, <1>4, <1>5, <1>6 DEF Inv

LEMMA NextInv == Inv /\ [Next]_vars => Inv'
<1> SUFFICES ASSUME Inv, [Next]_vars PROVE Inv'
  OBVIOUS
<1>1. CASE \E s \in Sources : ReadLine(s) \/ EndOfStream(s) \/ StreamBreaks(s)
  BY <1>1, ReadLineInv, StreamInv
<1>2. CASE FinalFlush \/ ProcessExits \/ WaitReturns
  BY <1>2, FinalFlushInv, ExitInv
<1>3. CASE \E p \in pushes : Handle(p) \/ RefreshFails(p) \/ Refuse(p) \/ GiveUp(p)
  BY <1>3, StoreInv, SnapshotInv, SendInv, BroadcastedInv, ReplyInv, RefreshFailsInv, RefuseInv,
     GiveUpInv DEF Handle
<1>4. CASE \E w \in Subscribers : Join(w) \/ GoAway(w) \/ Leave(w)
  BY <1>4, SubscriberInv
<1>5. CASE UNCHANGED vars
  <2>1. /\ UNCHANGED <<read, task, buffer, exited, pushes, stored, unsent, lost>>
        /\ UNCHANGED <<list, ws, gone, due, faults>>
    BY <1>5 DEF vars, agentVars, channelVars, databaseVars
  <2>2. TypeOK'
    BY <2>1 DEF Inv, TypeOK
  <2>3. \A l \in Lines : Single(l)'
    BY <2>1, SameLines DEF Inv
  <2>4. WaitsOK'
    BY <2>1 DEF Inv, WaitsOK, Gathered
  <2>5. DueOK'
    BY <2>1, SamePushes DEF Inv, DueOK
  <2>6. QED
    BY <2>2, <2>3, <2>4, <2>5 DEF Inv
<1>6. QED
  BY <1>1, <1>2, <1>3, <1>4, <1>5 DEF Next

LEMMA Invariance == Spec => []Inv
  BY InitInv, NextInv, PTL DEF Spec

-----------------------------------------------------------------------------
(* Sets with one element at most. *)
LEMMA Empty == ASSUME NEW S, \A x : x \notin S PROVE Cardinality(S) = 0
<1>1. S = {}
  OBVIOUS
<1>2. QED
  BY <1>1, FS_EmptySet

LEMMA One == ASSUME NEW S, NEW x \in S, \A y \in S : y = x PROVE Cardinality(S) = 1
<1>1. S = {x}
  OBVIOUS
<1>2. QED
  BY <1>1, FS_Singleton

(* The numbers, the tasks, the pushes and the list keep their types. *)
THEOREM TypeCorrect == Spec => []TypeOK
<1>1. Inv => TypeOK
  BY DEF Inv
<1>2. QED
  BY <1>1, Invariance, PTL

(* A line that was read is in the buffer, on its way, in the database or lost, once, whatever *)
(* the two readers, their flushes, given-up pushes and failures do.                           *)
THEOREM LinesAreSingle == Spec => []EveryLineOnce
<1>1. Inv => EveryLineOnce
  <2> SUFFICES ASSUME Inv, NEW l \in LinesRead PROVE Times(l) = 1
    BY DEF EveryLineOnce
  <2> DEFINE B == {i \in 1..Len(buffer) : buffer[i] = l}
             P == {p \in pushes : p.at = "sent" /\ Contains(p.lines, l)}
             L == IF l \in lost THEN 1 ELSE 0
  <2>1. l \in Lines /\ Single(l) /\ stored[l] \in Nat
    BY DEF Inv, LinesRead, TypeOK
  <2>2. \A p : p \in P <=> p \in pushes /\ Carries(p, l)
    BY DEF Carries
  <2>3. ~InBuffer(l) => Cardinality(B) = 0
    <3>1. ~InBuffer(l) => \A i : i \notin B
      BY DEF InBuffer
    <3>2. QED
      BY <3>1, Empty
  <2>4. InBuffer(l) => Cardinality(B) = 1
    <3> SUFFICES ASSUME InBuffer(l) PROVE Cardinality(B) = 1
      OBVIOUS
    <3>1. PICK i \in B : TRUE
      BY DEF InBuffer
    <3>2. \A j \in B : j = i
      BY <2>1 DEF Single
    <3> HIDE DEF B
    <3>3. QED
      BY <3>1, <3>2, One
  <2>5. ~OnItsWay(l) => Cardinality(P) = 0
    <3>1. ~OnItsWay(l) => \A p : p \notin P
      BY <2>2 DEF OnItsWay
    <3>2. QED
      BY <3>1, Empty
  <2>6. OnItsWay(l) => Cardinality(P) = 1
    <3> SUFFICES ASSUME OnItsWay(l) PROVE Cardinality(P) = 1
      OBVIOUS
    <3>1. PICK p \in P : TRUE
      BY <2>2 DEF OnItsWay
    <3>2. \A q \in P : q = p
      BY <2>1, <2>2 DEF Single
    <3> HIDE DEF P
    <3>3. QED
      BY <3>1, <3>2, One
  <2>7. Times(l) = Cardinality(B) + Cardinality(P) + stored[l] + L
    BY DEF Times
  <2>8. l \in lost \/ l \notin lost
    OBVIOUS
  <2> HIDE DEF B, P
  <2>9. QED
    BY <2>1, <2>3, <2>4, <2>5, <2>6, <2>7, <2>8 DEF Single
<1>2. QED
  BY <1>1, Invariance, PTL

(* When stream() returns, so that the final status of the run can be reported, no push is     *)
(* awaited and every line that was read has been pushed.                                      *)
THEOREM OutputBeforeEnd == Spec => []OutputComesFirst
<1>1. Inv => OutputComesFirst
  <2> SUFFICES ASSUME Inv, task[Main] = "ended" PROVE OutputComesFirst
    BY DEF OutputComesFirst
  <2>1. buffer = <<>> /\ Gathered
    BY DEF Inv, WaitsOK
  <2>2. \A p \in pushes : p.by = None
    <3> SUFFICES ASSUME NEW p \in pushes, p.by # None PROVE FALSE
      OBVIOUS
    <3>1. task[p.by] = "flushing" /\ p.by \in Tasks
      BY PushFacts DEF Inv, WaitsOK
    <3>2. \A t \in Tasks : task[t] = "ended"
      BY <2>1 DEF Gathered, Tasks
    <3>3. QED
      BY <3>1, <3>2
  <2>3. ASSUME NEW l \in LinesRead
        PROVE  l \in InDatabase \cup lost \cup UNION {ToSet(p.lines) : p \in pushes}
    <3>1. l \in Lines /\ Single(l) /\ ~InBuffer(l)
      BY <2>1 DEF Inv, LinesRead, InBuffer
    <3>2. OnItsWay(l) \/ stored[l] = 1 \/ l \in lost
      BY <3>1, <2>3 DEF Single
    <3>3. CASE OnItsWay(l)
      <4>1. PICK p \in pushes : Carries(p, l)
        BY <3>3 DEF OnItsWay
      <4>2. l \in ToSet(p.lines)
        BY <3>1, <4>1, Arriving DEF Carries
      <4>3. QED
        BY <4>2
    <3>4. QED
      BY <3>1, <3>2, <3>3 DEF InDatabase
  <2>4. QED
    BY <2>2, <2>3 DEF OutputComesFirst
<1>2. QED
  BY <1>1, Invariance, PTL

(* Every line that a subscriber is owed is in a broadcast that has not come to it yet,        *)
(* whoever joins, leaves or dies meanwhile, or it was stored by a handler that failed before  *)
(* it had broadcast anything.                                                                 *)
THEOREM SubscribersMissNothing == Spec => []NothingIsMissed
<1>1. Inv => NothingIsMissed
  <2> SUFFICES ASSUME Inv, NEW w \in Subscribers, NEW l \in due[w], l \notin unsent
               PROVE  \E p \in pushes : \E k \in p.next..Len(p.lines) : p.lines[k] = l
    BY DEF NothingIsMissed
  <2>1. PICK p \in pushes, k \in Nat : Brings(p, k, w) /\ p.lines[k] = l
    BY DEF Inv, DueOK
  <2>2. k \in p.next..Len(p.lines)
    BY <2>1 DEF Brings
  <2>3. QED
    BY <2>1, <2>2
<1>2. QED
  BY <1>1, Invariance, PTL
=============================================================================
