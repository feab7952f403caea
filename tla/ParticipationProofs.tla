------------------------- MODULE ParticipationProofs -------------------------
(***************************************************************************)
(* Theorems about taking part through the web, for any number of users,    *)
(* places, copies of the row under way, loads and failures.                *)
(***************************************************************************)
EXTENDS Participation, TLAPS, FiniteSetTheorems

-----------------------------------------------------------------------------
(* The inductive invariant                                                   *)

\* A copy of the metadata is not ahead of a contract with n entrants in state s.
Sound(meta, n, s) ==
    /\ meta.count <= n
    /\ meta.settlement # "none" => s \in {"frozen", "sealed"}
    /\ meta.settlement = "executed" => s = "sealed"
Entrants == Cardinality(entered)

\* Neither is any of the copies that can be written back or shown.
RowSound   == Sound(row.meta, Entrants, state) /\ Sound(ingest.saved, Entrants, state)
LoadsKnow  == \A v \in Loaders : Sound(load[v].shown, Entrants, state) /\ Sound(load[v].saved, Entrants, state)
PagesSound == \A v \in Visitors : Sound(page[v], Entrants, state)

Seated == Entrants <= Capacity

\* Events of entries are of entries, and the one a transaction applies waits.
FeedSound ==
    /\ \A i \in DOMAIN feed : feed[i].kind = "entered" => feed[i].who \in entered
    /\ ingest.step = "write" => feed # <<>>

\* A load is of a status with a transition, and the desk waits for its own.
LoadsPending ==
    /\ \A v \in Loaders : load[v].from # "settled"
    /\ load[Desk].step # "idle" => desk.step \in {"plan", "confirm"}

\* What the organizer's routes confirm has happened.
DeskSound ==
    /\ Sound(desk.saved, Entrants, state)
    /\ desk.step \in {"confirm", "confirmed", "read", "write"} => desk.act # "goLive"
    /\ desk.step \in {"read", "write"} =>
          state \in {"frozen", "sealed"} /\ (desk.act = "seal" => state = "sealed")

\* What the server found when it called a registration ready, and what only
\* the registration itself takes away.
Cleared ==
    \A u \in Users : panel[u].step = "register" =>
        u \notin panel[u].seen /\ Cardinality(panel[u].seen) < Capacity /\ u \in allowed

IInv == /\ TypeOK /\ RowSound /\ LoadsKnow /\ PagesSound
        /\ Seated /\ FeedSound /\ LoadsPending /\ DeskSound /\ Cleared

-----------------------------------------------------------------------------
(* Counting, types and copies                                                *)

LEMMA Counting ==
    ASSUME NEW S \in SUBSET Users
    PROVE  /\ IsFiniteSet(S) /\ Cardinality(S) \in Nat
           /\ \A T \in SUBSET S : IsFiniteSet(T) /\ Cardinality(T) <= Cardinality(S)
           /\ \A u \in Users : Cardinality(S \cup {u}) <= Cardinality(S) + 1
<1>1. IsFiniteSet(S)
    BY ParticipationAssumption, FS_Subset
<1>2. Cardinality(S) \in Nat
    BY <1>1, FS_CardinalityType
<1>3. \A T \in SUBSET S : IsFiniteSet(T) /\ Cardinality(T) <= Cardinality(S)
    BY <1>1, FS_Subset
<1>4. \A u \in Users : Cardinality(S \cup {u}) <= Cardinality(S) + 1
    BY <1>1, <1>2, FS_AddElement
<1> QED
    BY <1>1, <1>2, <1>3, <1>4

LEMMA Spent ==
    ASSUME TypeOK, NEW what \in Spending, Spend(what)
    PROVE  left' \in [Spending -> 0..Unlimited]
BY SMT DEF TypeOK, Spend, Unlimited

LEMMA Names == /\ Visitors \subseteq Loaders /\ Users \subseteq Visitors /\ Organizer \in Visitors
               /\ Desk \in Loaders /\ Desk \notin Visitors /\ Others \in Loaders /\ Others \notin Visitors /\ Desk # Others
BY ParticipationAssumption DEF Visitors, Loaders, Desk, Others

\* The contract only goes forward, so that a copy that was sound stays it.
Forward ==
    /\ entered \subseteq entered' /\ entered' \subseteq Users
    /\ state \in {"frozen", "sealed"} => state' \in {"frozen", "sealed"}
    /\ state = "sealed" => state' = "sealed"

LEMMA StaysSound ==
    ASSUME TypeOK, Forward
    PROVE  \A meta \in Meta : Sound(meta, Entrants, state) => Sound(meta, Entrants', state')
<1>1. Entrants \in Nat /\ Entrants' \in Nat /\ Entrants <= Entrants'
    BY Counting DEF Entrants, Forward
<1> QED
    BY <1>1, ParticipationAssumption DEF Sound, Forward, Meta

LEMMA CopiesStay ==
    ASSUME IInv, Forward
    PROVE  /\ UNCHANGED <<row, ingest>> => RowSound'
           /\ UNCHANGED load => LoadsKnow'
           /\ UNCHANGED page => PagesSound'
           /\ UNCHANGED desk => DeskSound'
<1>0. TypeOK /\ RowSound /\ LoadsKnow /\ PagesSound /\ DeskSound
    BY DEF IInv
<1>1. \A meta \in Meta : Sound(meta, Entrants, state) => Sound(meta, Entrants', state')
    BY <1>0, StaysSound
<1>2. /\ row.meta \in Meta /\ ingest.saved \in Meta /\ desk.saved \in Meta
      /\ \A v \in Loaders : load[v].shown \in Meta /\ load[v].saved \in Meta
      /\ \A v \in Visitors : page[v] \in Meta
    BY <1>0 DEF TypeOK
<1>3. UNCHANGED <<row, ingest>> => RowSound'
    BY <1>0, <1>1, <1>2 DEF RowSound
<1>4. UNCHANGED load => LoadsKnow'
    BY <1>0, <1>1, <1>2 DEF LoadsKnow
<1>5. UNCHANGED page => PagesSound'
    BY <1>0, <1>1, <1>2 DEF PagesSound
<1>6. UNCHANGED desk => DeskSound'
    BY <1>0, <1>1, <1>2 DEF DeskSound, Forward
<1> QED
    BY <1>3, <1>4, <1>5, <1>6

\* A panel's step.
PanelType == [step : Steps, plan : Plan, seen : SUBSET Users]

LEMMA PanelMoves ==
    ASSUME IInv, NEW u \in Users, NEW p \in PanelType, panel' = [panel EXCEPT ![u] = p],
           p.step = "register" => u \notin p.seen /\ Cardinality(p.seen) < Capacity /\ u \in allowed',
           allowed \subseteq allowed' \cup {u}
    PROVE  panel' \in [Users -> PanelType] /\ Cleared'
<1>1. panel \in [Users -> PanelType]
    BY DEF IInv, TypeOK, PanelType
<1>2. panel' \in [Users -> PanelType] /\ panel'[u] = p /\ \A w \in Users : w # u => panel'[w] = panel[w]
    BY <1>1
<1> QED
    BY <1>2 DEF IInv, Cleared

LEMMA PanelGoes ==
    ASSUME IInv, NEW u \in Users, NEW step \in Steps \ {"register"}, Goto(u, step), allowed \subseteq allowed' \cup {u}
    PROVE  panel' \in [Users -> PanelType] /\ Cleared'
<1> PICK p : p = [panel[u] EXCEPT !.step = step]
    OBVIOUS
<1>1. panel \in [Users -> PanelType] /\ panel[u] \in PanelType
    BY DEF IInv, TypeOK, PanelType
<1>2. p \in PanelType /\ p.step = step
    BY <1>1 DEF PanelType
<1>3. panel' = [panel EXCEPT ![u] = p]
    BY <1>1 DEF Goto
<1> QED
    BY <1>2, <1>3, PanelMoves

LEMMA ClearedStays ==
    ASSUME IInv, UNCHANGED panel, allowed \subseteq allowed'
    PROVE  Cleared'
BY DEF IInv, Cleared

-----------------------------------------------------------------------------
(* Transactions                                                              *)

\* An event that is emitted.
LEMMA Emitted ==
    ASSUME IInv, NEW e \in Events, feed' = Append(feed, e), entered \subseteq entered', UNCHANGED ingest,
           e.kind = "entered" => e.who \in entered'
    PROVE  feed' \in Seq(Events) /\ FeedSound'
<1>1. feed \in Seq(Events)
    BY DEF IInv, TypeOK
<1>2. /\ feed' \in Seq(Events) /\ feed' # <<>> /\ Len(feed') = Len(feed) + 1 /\ Len(feed) \in Nat
      /\ feed'[Len(feed) + 1] = e
      /\ \A i \in 1..Len(feed) : feed'[i] = feed[i]
    BY <1>1
<1>3. DOMAIN feed' = 1..Len(feed') /\ DOMAIN feed = 1..Len(feed)
    BY <1>1, <1>2
<1>4. \A i \in DOMAIN feed' : i = Len(feed) + 1 \/ i \in DOMAIN feed
    BY <1>2, <1>3
<1> QED
    BY <1>2, <1>3, <1>4 DEF IInv, FeedSound

LEMMA FeedStays ==
    ASSUME IInv, UNCHANGED <<feed, ingest>>, entered \subseteq entered'
    PROVE  feed' \in Seq(Events) /\ FeedSound'
BY DEF IInv, TypeOK, FeedSound

LEMMA Acted ==
    ASSUME IInv, NEW act \in Acts, Act(act), UNCHANGED ingest
    PROVE  /\ state' \in States /\ feed' \in Seq(Events) /\ FeedSound' /\ Forward
           /\ UNCHANGED <<entered, scored, allowed>>
           /\ CanAct[act] => state' = After[act]
<1>0. TypeOK
    BY DEF IInv
<1>1. UNCHANGED <<entered, scored, allowed>> /\ entered \subseteq Users /\ state \in States
    BY <1>0 DEF Act, TypeOK
<1>2. CASE ~CanAct[act]
  <2>1. UNCHANGED <<feed, state>>
    BY <1>2 DEF Act
  <2> QED
    BY <1>1, <1>2, <2>1, FeedStays DEF Forward
<1>3. CASE CanAct[act]
  <2> PICK s : s = After[act]
    OBVIOUS
  <2>1. state' = s
    BY <1>3 DEF Act
  <2>2. /\ act = "goLive" => s = Synced
        /\ act = "freeze" => s = "frozen" /\ state \in {"registering", "live"}
        /\ act = "seal" => s = "sealed" /\ state = "frozen"
    <3>1. CASE act = "goLive"
      BY <3>1 DEF After
    <3>2. CASE act = "freeze"
      <4>1. s = "frozen" /\ Synced = "live"
        BY <1>3, <3>2 DEF After, CanAct
      <4> QED
        BY <1>1, <3>2, <4>1 DEF Synced, States
    <3>3. CASE act = "seal"
      BY <1>3, <3>3 DEF After, CanAct
    <3> QED
      BY <3>1, <3>2, <3>3
  <2>3. s \in States /\ Forward
    BY <1>1, <2>1, <2>2 DEF States, Synced, Acts, Forward
  <2>4. CASE act = "goLive"
    <3>1. UNCHANGED feed
      BY <2>4 DEF Act
    <3> QED
      BY <1>1, <2>1, <2>3, <3>1, FeedStays
  <2>5. CASE act # "goLive"
    <3> PICK e : e = [kind |-> s]
      OBVIOUS
    <3>1. feed' = Append(feed, e)
      BY <1>3, <2>5 DEF Act
    <3>2. e \in Events /\ e.kind # "entered"
      BY <2>2, <2>5 DEF Events, Acts
    <3> QED
      BY <1>1, <2>1, <2>3, <3>1, <3>2, Emitted
  <2> QED
    BY <2>4, <2>5
<1> QED
    BY <1>2, <1>3

LEMMA ServiceKeeps ==
    ASSUME IInv, ServiceActs
    PROVE  IInv'
<1>0. TypeOK /\ Seated /\ LoadsPending
    BY DEF IInv
<1>1. UNCHANGED <<now, row, rows, ingest, load, page, panel, desk>> /\ left' \in [Spending -> 0..Unlimited]
    BY <1>0, Spent DEF ServiceActs, Spending, record
<1>2. /\ state' \in States /\ feed' \in Seq(Events) /\ FeedSound' /\ Forward
      /\ UNCHANGED <<entered, allowed>> /\ scored' \subseteq entered
  <2>1. CASE \E act \in Acts : Act(act)
    BY <1>0, <1>1, <2>1, Acted DEF TypeOK
  <2>2. CASE scored' = entered /\ UNCHANGED <<state, entered, allowed, feed>>
    BY <1>0, <1>1, <2>2, FeedStays DEF TypeOK, Forward
  <2> QED
    BY <2>1, <2>2 DEF ServiceActs
<1>3. RowSound' /\ LoadsKnow' /\ PagesSound' /\ DeskSound'
    BY <1>1, <1>2, CopiesStay
<1>4. Cleared'
    BY <1>1, <1>2, ClearedStays
<1>5. TypeOK'
    BY <1>0, <1>1, <1>2 DEF TypeOK
<1>6. Seated' /\ LoadsPending'
    BY <1>0, <1>1, <1>2 DEF Seated, Entrants, LoadsPending
<1> QED
    BY <1>2, <1>3, <1>4, <1>5, <1>6 DEF IInv

LEMMA SendActKeeps ==
    ASSUME IInv, SendAct
    PROVE  IInv'
<1>0. TypeOK /\ Seated /\ LoadsPending /\ DeskSound
    BY DEF IInv
<1>1. desk.step = "send" /\ UNCHANGED <<now, row, rows, ingest, load, page, panel, left>>
    BY DEF SendAct, record
<1>2. desk.act \in Acts /\ desk \in [step : DeskSteps, act : Acts, ok : BOOLEAN, saved : Meta]
    BY <1>0 DEF TypeOK
<1>3. /\ state' \in States /\ feed' \in Seq(Events) /\ FeedSound' /\ Forward
      /\ UNCHANGED <<entered, scored, allowed>>
    BY <1>1, <1>2, Acted DEF SendAct
<1>4. RowSound' /\ LoadsKnow' /\ PagesSound' /\ Cleared'
    BY <1>1, <1>3, CopiesStay, ClearedStays
<1>5. \A meta \in Meta : Sound(meta, Entrants, state) => Sound(meta, Entrants', state')
    BY <1>0, <1>3, StaysSound
<1>6. desk' \in [step : DeskSteps, act : Acts, ok : BOOLEAN, saved : Meta] /\ DeskSound'
  <2>1. CASE desk.act = "goLive"
    <3>1. desk' = NoAct
      BY <2>1 DEF SendAct
    <3>2. NoAct.step = "idle" /\ NoAct.saved = Fresh /\ NoAct \in [step : DeskSteps, act : Acts, ok : BOOLEAN, saved : Meta]
      BY ParticipationAssumption DEF NoAct, DeskSteps, Acts, Meta, Phases, Fresh
    <3>3. Sound(Fresh, Entrants', state')
      BY <1>0, <1>3, Counting DEF Sound, Fresh, Entrants, TypeOK
    <3> QED
      BY <3>1, <3>2, <3>3 DEF DeskSound
  <2>2. CASE desk.act # "goLive"
    <3> PICK b : b = CanAct[desk.act]
      OBVIOUS
    <3>0. b \in BOOLEAN
      <4>1. CASE desk.act = "goLive"
        BY <4>1 DEF CanAct
      <4>2. CASE desk.act = "freeze"
        BY <4>2 DEF CanAct
      <4>3. CASE desk.act = "seal"
        BY <4>3 DEF CanAct
      <4> QED
        BY <1>2, <4>1, <4>2, <4>3 DEF Acts
    <3> PICK d : d = [desk EXCEPT !.ok = b, !.step = "confirm"]
      OBVIOUS
    <3>1. desk' = d
      BY <2>2 DEF SendAct
    <3>2. /\ d \in [step : DeskSteps, act : Acts, ok : BOOLEAN, saved : Meta]
          /\ d.step = "confirm" /\ d.act = desk.act /\ d.saved = desk.saved
      BY <1>2, <3>0 DEF DeskSteps
    <3> QED
      BY <1>0, <1>2, <1>5, <2>2, <3>1, <3>2 DEF DeskSound
  <2> QED
    BY <2>1, <2>2
<1>7. LoadsPending'
    BY <1>0, <1>1 DEF LoadsPending
<1>8. TypeOK' /\ Seated'
    BY <1>0, <1>1, <1>3, <1>6 DEF TypeOK, Seated, Entrants
<1> QED
    BY <1>3, <1>4, <1>6, <1>7, <1>8 DEF IInv

\* The three transactions of a panel.
LEMMA WalletKeeps ==
    ASSUME IInv, NEW u \in Users, Approve(u) \/ Register(u) \/ Settle(u)
    PROVE  IInv'
<1>0. TypeOK /\ Seated /\ LoadsPending
    BY DEF IInv
<1>1. UNCHANGED <<now, state, row, rows, ingest, load, page, desk, left>>
    BY DEF Approve, Register, Settle, record
<1>2. /\ panel' \in [Users -> PanelType] /\ Cleared'
      /\ allowed' \subseteq Users /\ scored' \subseteq entered'
      /\ entered \subseteq entered' /\ entered' \subseteq Users /\ Seated'
      /\ feed' \in Seq(Events) /\ FeedSound'
  <2>1. CASE Approve(u)
    <3>1. /\ allowed' = allowed \cup {u} /\ Goto(u, "plan") /\ "plan" \in Steps \ {"register"}
          /\ UNCHANGED <<entered, scored, feed>>
      BY <2>1 DEF Approve, Steps
    <3>2. panel' \in [Users -> PanelType] /\ Cleared'
      BY <3>1, PanelGoes
    <3> QED
      BY <1>0, <1>1, <3>1, <3>2, FeedStays DEF TypeOK, Seated, Entrants
  <2>2. CASE Settle(u)
    <3>1. /\ Goto(u, "refresh") /\ "refresh" \in Steps \ {"register"} /\ UNCHANGED <<entered, allowed, feed>>
          /\ scored' = IF state = "frozen" /\ u \in entered THEN scored \cup {u} ELSE scored
      BY <2>2 DEF Settle, Steps
    <3>2. panel' \in [Users -> PanelType] /\ Cleared'
      BY <3>1, PanelGoes
    <3> QED
      BY <1>0, <1>1, <3>1, <3>2, FeedStays DEF TypeOK, Seated, Entrants
  <2>3. CASE Register(u) /\ ~CanRegister(u)
    <3>1. Goto(u, "refresh") /\ "refresh" \in Steps \ {"register"} /\ UNCHANGED <<entered, allowed, scored, feed>>
      BY <2>3 DEF Register, Steps
    <3>2. panel' \in [Users -> PanelType] /\ Cleared'
      BY <3>1, PanelGoes
    <3> QED
      BY <1>0, <1>1, <3>1, <3>2, FeedStays DEF TypeOK, Seated, Entrants
  <2>4. CASE Register(u) /\ CanRegister(u)
    <3> PICK e : e = [kind |-> "entered", who |-> u]
      OBVIOUS
    <3>1. /\ Goto(u, "refresh") /\ "refresh" \in Steps \ {"register"} /\ UNCHANGED scored
          /\ entered' = entered \cup {u} /\ allowed' = allowed \ {u} /\ feed' = Append(feed, e)
      BY <2>4 DEF Register, Steps
    <3>2. panel' \in [Users -> PanelType] /\ Cleared'
      BY <3>1, PanelGoes
    <3>3. e \in Events /\ e.who = u
      BY DEF Events
    <3>4. feed' \in Seq(Events) /\ FeedSound'
      BY <1>1, <3>1, <3>3, Emitted
    <3>5. Seated'
      <4>1. Entrants < Capacity /\ Capacity \in Nat
        BY <2>4, ParticipationAssumption DEF CanRegister, Entrants
      <4>2. Entrants \in Nat /\ Entrants' \in Nat /\ Entrants' <= Entrants + 1
        <5>1. entered \in SUBSET Users /\ entered' \in SUBSET Users
          BY <1>0, <3>1 DEF TypeOK
        <5> QED
          BY <3>1, <5>1, Counting DEF Entrants
      <4> QED
        BY <4>1, <4>2 DEF Seated
    <3> QED
      BY <1>0, <3>1, <3>2, <3>4, <3>5 DEF TypeOK
  <2> QED
    BY <2>1, <2>2, <2>3, <2>4
<1>3. Forward
    BY <1>1, <1>2 DEF Forward
<1>4. RowSound' /\ LoadsKnow' /\ PagesSound' /\ DeskSound'
    BY <1>1, <1>3, CopiesStay
<1>5. TypeOK'
    BY <1>0, <1>1, <1>2 DEF TypeOK, PanelType
<1>6. LoadsPending'
    BY <1>0, <1>1 DEF LoadsPending
<1> QED
    BY <1>2, <1>4, <1>5, <1>6 DEF IInv

-----------------------------------------------------------------------------
(* Copies of the row                                                         *)

LoadType == [step : {"idle", "read", "write"}, from : Statuses, shown : Meta, saved : Meta]
DeskType == [step : DeskSteps, act : Acts, ok : BOOLEAN, saved : Meta]

LEMMA Freshness ==
    ASSUME TypeOK
    PROVE  /\ Fresh \in Meta /\ Sound(Fresh, Entrants, state)
           /\ NoLoad \in LoadType /\ NoLoad.step = "idle" /\ NoLoad.from = "registered"
           /\ NoLoad.shown = Fresh /\ NoLoad.saved = Fresh
           /\ NoAct \in DeskType /\ NoAct.step = "idle" /\ NoAct.saved = Fresh
<1>1. Fresh \in Meta
    BY ParticipationAssumption DEF Fresh, Meta, Phases
<1>2. Sound(Fresh, Entrants, state)
    BY Counting DEF Fresh, Sound, Entrants, TypeOK
<1>3. /\ NoLoad \in LoadType /\ NoLoad.step = "idle" /\ NoLoad.from = "registered"
      /\ NoLoad.shown = Fresh /\ NoLoad.saved = Fresh
    BY <1>1 DEF NoLoad, LoadType, Statuses
<1>4. NoAct \in DeskType /\ NoAct.step = "idle" /\ NoAct.saved = Fresh
    BY <1>1 DEF NoAct, DeskType, DeskSteps, Acts
<1> QED
    BY <1>1, <1>2, <1>3, <1>4

\* A copy with another phase.
LEMMA Rephased ==
    ASSUME NEW meta \in Meta, NEW phase \in Phases, NEW m, m = [meta EXCEPT !.phase = phase]
    PROVE  m \in Meta /\ (Sound(meta, Entrants, state) => Sound(m, Entrants, state))
<1>1. m \in Meta /\ m.count = meta.count /\ m.settlement = meta.settlement
    BY DEF Meta
<1> QED
    BY <1>1 DEF Sound

\* A step that leaves the contract alone.
LEMMA ChainStands ==
    ASSUME IInv, UNCHANGED <<now, chain>>
    PROVE  /\ UNCHANGED <<now, state, entered, scored, allowed, feed>> /\ Forward /\ Seated'
           /\ UNCHANGED ingest => FeedSound'
<1>1. UNCHANGED <<now, state, entered, scored, allowed, feed>>
    BY DEF chain
<1>2. Forward /\ Seated'
    BY <1>1 DEF IInv, TypeOK, Forward, Seated, Entrants
<1>3. UNCHANGED ingest => FeedSound'
    BY <1>1, FeedStays
<1> QED
    BY <1>1, <1>2, <1>3

\* A load of the contest is answered.
LEMMA Arrives ==
    ASSUME IInv, NEW v \in Loaders, NEW meta \in Meta, v \in Visitors => Sound(meta, Entrants, state),
           Arrive(v, meta), UNCHANGED <<now, chain>>,
           v = Desk => desk.step \in {"plan", "confirm"}
    PROVE  /\ load' \in [Loaders -> LoadType] /\ page' \in [Visitors -> Meta]
           /\ panel' \in [Users -> PanelType] /\ desk' \in DeskType
           /\ LoadsKnow' /\ PagesSound' /\ LoadsPending' /\ DeskSound' /\ Cleared'
<1>0. TypeOK /\ LoadsKnow /\ PagesSound /\ LoadsPending /\ DeskSound
    BY DEF IInv
<1>1. UNCHANGED <<state, entered, allowed>> /\ Forward
    BY ChainStands
<1>2. UNCHANGED Entrants
    BY <1>1 DEF Entrants
<1>3. load \in [Loaders -> LoadType] /\ load' = [load EXCEPT ![v] = NoLoad]
    BY <1>0 DEF TypeOK, LoadType, Arrive
<1>4. /\ load' \in [Loaders -> LoadType] /\ load'[v] = NoLoad
      /\ \A w \in Loaders : w # v => load'[w] = load[w]
    BY <1>0, <1>3, Freshness
<1>5. LoadsKnow'
    BY <1>0, <1>1, <1>2, <1>4, Freshness DEF LoadsKnow
<1>6. CASE v = Desk
  <2> PICK d : d = [desk EXCEPT !.step = IF desk.step = "plan" THEN "planned" ELSE "confirmed"]
    OBVIOUS
  <2>1. desk' = d /\ UNCHANGED <<page, panel>>
    BY <1>6 DEF Arrive
  <2>2. d \in DeskType /\ d.act = desk.act /\ d.saved = desk.saved /\ d.step = (IF desk.step = "plan" THEN "planned" ELSE "confirmed")
    BY <1>0 DEF TypeOK, DeskType, DeskSteps
  <2>3. DeskSound'
    BY <1>0, <1>1, <1>2, <1>6, <2>1, <2>2 DEF DeskSound
  <2>4. LoadsPending'
    BY <1>0, <1>4, <1>6, Freshness DEF LoadsPending
  <2>5. PagesSound' /\ Cleared'
    BY <1>1, <2>1, CopiesStay, ClearedStays
  <2> QED
    BY <1>0, <1>4, <1>5, <2>1, <2>2, <2>3, <2>4, <2>5 DEF TypeOK, PanelType
<1>7. CASE v # Desk
  <2>1. /\ UNCHANGED desk
        /\ page' = IF v = Others THEN page ELSE [page EXCEPT ![v] = meta]
        /\ panel' = IF v \in Users /\ panel[v].step = "refresh"
                    THEN [panel EXCEPT ![v].step = "idle"] ELSE panel
    BY <1>7 DEF Arrive
  <2>2. v # Others => v \in Visitors
    BY <1>7 DEF Loaders, Visitors
  <2>3. page' \in [Visitors -> Meta] /\ PagesSound'
    BY <1>0, <1>1, <1>2, <2>1, <2>2, Names DEF TypeOK, PagesSound
  <2>4. panel' \in [Users -> PanelType] /\ Cleared'
    <3>1. CASE v \in Users /\ panel[v].step = "refresh"
      <4>1. Goto(v, "idle") /\ "idle" \in Steps \ {"register"}
        BY <2>1, <3>1 DEF Goto, Steps
      <4> QED
        BY <1>1, <3>1, <4>1, PanelGoes
    <3>2. CASE ~(v \in Users /\ panel[v].step = "refresh")
      BY <1>0, <1>1, <2>1, <3>2, ClearedStays DEF TypeOK, PanelType
    <3> QED
      BY <3>1, <3>2
  <2>5. LoadsPending'
    BY <1>0, <1>4, <1>7, <2>1, Freshness, Names DEF LoadsPending
  <2>6. DeskSound'
    BY <1>1, <2>1, CopiesStay
  <2> QED
    BY <1>0, <1>4, <1>5, <2>1, <2>3, <2>4, <2>5, <2>6 DEF TypeOK, DeskType
<1> QED
    BY <1>6, <1>7

\* A load goes on.
LEMMA LoadMoves ==
    ASSUME IInv, NEW v \in Loaders, NEW l \in LoadType, load' = [load EXCEPT ![v] = l], UNCHANGED <<now, chain, desk>>,
           l.from # "settled", Sound(l.shown, Entrants, state), Sound(l.saved, Entrants, state),
           v = Desk => desk.step \in {"plan", "confirm"}
    PROVE  load' \in [Loaders -> LoadType] /\ LoadsKnow' /\ LoadsPending'
<1>0. TypeOK /\ LoadsKnow /\ LoadsPending
    BY DEF IInv
<1>1. UNCHANGED <<state, entered>>
    BY ChainStands
<1>2. UNCHANGED Entrants
    BY <1>1 DEF Entrants
<1>3. load \in [Loaders -> LoadType]
    BY <1>0 DEF TypeOK, LoadType
<1>4. /\ load' \in [Loaders -> LoadType] /\ load'[v] = l
      /\ \A w \in Loaders : w # v => load'[w] = load[w]
    BY <1>3
<1>5. LoadsKnow'
    BY <1>0, <1>1, <1>2, <1>4 DEF LoadsKnow
<1>6. LoadsPending'
    BY <1>0, <1>4, Names DEF LoadsPending
<1> QED
    BY <1>4, <1>5, <1>6

\* What the steps of a load have in common.
LEMMA LoadKeeps ==
    ASSUME IInv, UNCHANGED <<now, chain, rows, ingest>>, left' \in [Spending -> 0..Unlimited],
           row' \in [status : Statuses, meta : Meta], Sound(row'.meta, Entrants, state),
           load' \in [Loaders -> LoadType], page' \in [Visitors -> Meta],
           panel' \in [Users -> PanelType], desk' \in DeskType,
           LoadsKnow', PagesSound', LoadsPending', DeskSound', Cleared'
    PROVE  IInv'
<1>0. TypeOK /\ RowSound
    BY DEF IInv
<1>1. UNCHANGED <<now, state, entered, scored, allowed, feed>> /\ Seated' /\ FeedSound'
    BY ChainStands
<1>2. RowSound'
    BY <1>0, <1>1 DEF RowSound, Entrants
<1>3. TypeOK'
    BY <1>0, <1>1 DEF TypeOK, LoadType, PanelType, DeskType
<1> QED
    BY <1>1, <1>2, <1>3 DEF IInv

LEMMA QueryKeeps ==
    ASSUME IInv, NEW v \in Loaders, Query(v), left' \in [Spending -> 0..Unlimited],
           v = Desk => desk.step \in {"plan", "confirm"}
    PROVE  IInv'
<1>0. TypeOK /\ RowSound
    BY DEF IInv
<1>1. UNCHANGED <<now, chain, row, rows, ingest>>
    BY DEF Query, record
<1>2. row.meta \in Meta /\ Sound(row.meta, Entrants, state) /\ row.status \in Statuses
    BY <1>0 DEF TypeOK, RowSound
<1>3. CASE Arrive(v, row.meta)
    BY <1>0, <1>1, <1>2, <1>3, Arrives, LoadKeeps DEF TypeOK
<1>4. CASE ~Arrive(v, row.meta)
  <2> PICK shown \in Meta : shown = (IF v \in Visitors THEN row.meta ELSE Fresh)
    BY <1>0, <1>2, Freshness
  <2> PICK l : l = [step |-> "read", from |-> row.status, shown |-> shown, saved |-> Fresh]
    OBVIOUS
  <2>1. UNCHANGED <<page, panel, desk>> /\ load' = [load EXCEPT ![v] = l] /\ row.status # "settled"
    BY <1>4 DEF Query, MayAdvance
  <2>2. /\ l \in LoadType /\ l.from # "settled"
        /\ Sound(l.shown, Entrants, state) /\ Sound(l.saved, Entrants, state)
    BY <1>0, <1>2, <2>1, Freshness DEF LoadType
  <2>3. load' \in [Loaders -> LoadType] /\ LoadsKnow' /\ LoadsPending'
    BY <1>1, <2>1, <2>2, LoadMoves
  <2>4. PagesSound' /\ DeskSound' /\ Cleared'
    BY <1>1, <2>1, ChainStands, CopiesStay, ClearedStays
  <2> QED
    BY <1>0, <1>1, <1>2, <2>1, <2>3, <2>4, LoadKeeps DEF TypeOK, PanelType, DeskType
<1> QED
    BY <1>3, <1>4

LEMMA SyncReadKeeps ==
    ASSUME IInv, NEW v \in Loaders, SyncRead(v)
    PROVE  IInv'
<1>0. TypeOK /\ RowSound /\ LoadsKnow /\ LoadsPending
    BY DEF IInv
<1>1. UNCHANGED <<now, chain, row, rows, ingest, page, panel, desk, left>> /\ load[v].step = "read"
    BY DEF SyncRead, record
<1> PICK l : l = [load[v] EXCEPT !.step = "write", !.saved = row.meta]
    OBVIOUS
<1>2. load \in [Loaders -> LoadType] /\ load[v] \in LoadType /\ row.meta \in Meta /\ row \in [status : Statuses, meta : Meta]
    BY <1>0 DEF TypeOK, LoadType
<1>3. l \in LoadType /\ l.from = load[v].from /\ l.shown = load[v].shown /\ l.saved = row.meta
    BY <1>2 DEF LoadType
<1>4. load' = [load EXCEPT ![v] = l]
    BY <1>2 DEF SyncRead
<1>5. l.from # "settled" /\ Sound(l.shown, Entrants, state) /\ Sound(l.saved, Entrants, state)
    BY <1>0, <1>3 DEF LoadsKnow, LoadsPending, RowSound
<1>6. load' \in [Loaders -> LoadType] /\ LoadsKnow' /\ LoadsPending'
    BY <1>0, <1>1, <1>3, <1>4, <1>5, LoadMoves DEF LoadsPending
<1>7. PagesSound' /\ DeskSound' /\ Cleared'
    BY <1>1, ChainStands, CopiesStay, ClearedStays
<1>8. Sound(row'.meta, Entrants, state)
    BY <1>0, <1>1 DEF RowSound
<1> QED
    BY <1>0, <1>1, <1>2, <1>6, <1>7, <1>8, LoadKeeps DEF TypeOK, PanelType, DeskType

\* The write of a load, or its failure: the page is answered either way.
LEMMA SyncEndKeeps ==
    ASSUME IInv, NEW v \in Loaders, SyncWrite(v) \/ SyncFails(v)
    PROVE  IInv'
<1>0. TypeOK /\ RowSound /\ LoadsKnow /\ LoadsPending
    BY DEF IInv
<1> PICK l \in LoadType : l = load[v]
    BY <1>0 DEF TypeOK, LoadType
<1>1. /\ UNCHANGED <<now, chain, rows, ingest>> /\ left' \in [Spending -> 0..Unlimited]
      /\ l.step # "idle" /\ l.from \in Statuses \ {"settled"} /\ l.shown \in Meta /\ l.saved \in Meta
      /\ Sound(l.shown, Entrants, state) /\ Sound(l.saved, Entrants, state)
      /\ v = Desk => desk.step \in {"plan", "confirm"}
  <2>1. UNCHANGED <<now, chain, rows, ingest>> /\ left' \in [Spending -> 0..Unlimited] /\ l.step # "idle"
    BY <1>0, Spent DEF SyncWrite, SyncFails, record, Spending, TypeOK
  <2> QED
    BY <1>0, <2>1 DEF LoadsKnow, LoadsPending, LoadType
<1>2. CASE SyncFails(v)
  <2>1. Arrive(v, l.shown) /\ UNCHANGED row
    BY <1>2 DEF SyncFails, record
  <2>2. row' \in [status : Statuses, meta : Meta] /\ Sound(row'.meta, Entrants, state)
    BY <1>0, <2>1 DEF TypeOK, RowSound
  <2> QED
    BY <1>1, <2>1, <2>2, Arrives, LoadKeeps
<1>3. CASE SyncWrite(v)
  <2> PICK phase : phase = Into[l.from]
    OBVIOUS
  <2> PICK status : status = To[l.from]
    OBVIOUS
  <2>1. phase \in Phases /\ status \in Statuses
    <3>1. CASE l.from = "registered"
      BY <3>1 DEF Into, To, Phases, Statuses
    <3>2. CASE l.from = "active"
      BY <3>2 DEF Into, To, Phases, Statuses
    <3>3. CASE l.from = "sealed"
      BY <3>3 DEF Into, To, Phases, Statuses
    <3> QED
      BY <1>1, <3>1, <3>2, <3>3 DEF Statuses
  <2> PICK shown : shown = [l.shown EXCEPT !.phase = phase]
    OBVIOUS
  <2> PICK saved : saved = [l.saved EXCEPT !.phase = phase]
    OBVIOUS
  <2>2. /\ shown \in Meta /\ Sound(shown, Entrants, state)
        /\ saved \in Meta /\ Sound(saved, Entrants, state)
    BY <1>1, <2>1, Rephased
  <2>3. row' = [status |-> status, meta |-> saved] /\ Arrive(v, shown)
    BY <1>3 DEF SyncWrite
  <2>4. row' \in [status : Statuses, meta : Meta] /\ Sound(row'.meta, Entrants, state)
    BY <2>1, <2>2, <2>3
  <2> QED
    BY <1>1, <2>2, <2>3, <2>4, Arrives, LoadKeeps
<1> QED
    BY <1>2, <1>3

-----------------------------------------------------------------------------
(* The event indexer                                                         *)

LEMMA RecordKeeps ==
    ASSUME IInv, UNCHANGED <<now, state, entered, scored, allowed, load, page, panel, desk, left>>,
           feed' \in Seq(Events), FeedSound', rows' \subseteq entered,
           row' \in [status : Statuses, meta : Meta], Sound(row'.meta, Entrants, state),
           ingest' \in [step : {"idle", "write"}, saved : Meta], Sound(ingest'.saved, Entrants, state)
    PROVE  IInv'
<1>0. TypeOK /\ Seated /\ LoadsPending
    BY DEF IInv
<1>1. Forward
    BY <1>0 DEF TypeOK, Forward
<1>2. LoadsKnow' /\ PagesSound' /\ DeskSound' /\ Cleared'
    BY <1>1, CopiesStay, ClearedStays
<1>3. RowSound'
    BY DEF RowSound, Entrants
<1>4. TypeOK'
    BY <1>0 DEF TypeOK
<1>5. Seated' /\ LoadsPending'
    BY <1>0 DEF Seated, Entrants, LoadsPending
<1> QED
    BY <1>2, <1>3, <1>4, <1>5 DEF IInv

LEMMA EventApplied ==
    ASSUME IInv, feed # <<>>, feed' = Tail(feed), UNCHANGED entered, ingest'.step # "write"
    PROVE  feed' \in Seq(Events) /\ FeedSound'
<1>1. feed \in Seq(Events)
    BY DEF IInv, TypeOK
<1>2. /\ feed' \in Seq(Events) /\ Len(feed') = Len(feed) - 1 /\ Len(feed) \in Nat
      /\ \A i \in 1..Len(feed') : feed'[i] = feed[i + 1]
    BY <1>1
<1>3. DOMAIN feed' = 1..Len(feed') /\ DOMAIN feed = 1..Len(feed)
    BY <1>1, <1>2
<1>4. \A i \in DOMAIN feed' : i + 1 \in DOMAIN feed
    BY <1>2, <1>3
<1> QED
    BY <1>2, <1>3, <1>4 DEF IInv, FeedSound

LEMMA IngestKeeps ==
    ASSUME IInv, Ingest
    PROVE  IInv'
<1>0. TypeOK /\ Seated /\ LoadsPending /\ RowSound /\ FeedSound
    BY DEF IInv
<1>1. UNCHANGED <<now, state, entered, scored, allowed, load, page, panel, desk, left>> /\ feed # <<>>
    BY <1>0 DEF Ingest, IngestRead, IngestWrite, FeedSound
<1> PICK e \in Events : e = Head(feed)
    BY <1>0, <1>1 DEF TypeOK
<1>2. /\ row \in [status : Statuses, meta : Meta] /\ row.meta \in Meta
      /\ ingest \in [step : {"idle", "write"}, saved : Meta]
      /\ Sound(row.meta, Entrants, state) /\ Sound(ingest.saved, Entrants, state)
      /\ feed \in Seq(Events) /\ rows \subseteq entered
    BY <1>0 DEF TypeOK, RowSound
<1>3. CASE IngestRead
  <2>1. ingest.step = "idle" /\ UNCHANGED rows
    BY <1>3 DEF IngestRead
  <2>2. CASE e.kind = "entered" /\ e.who \in rows
    <3>1. feed' = Tail(feed) /\ UNCHANGED <<row, ingest>>
      BY <1>3, <2>2 DEF IngestRead
    <3>2. feed' \in Seq(Events) /\ FeedSound'
      BY <1>1, <2>1, <3>1, EventApplied
    <3> QED
      BY <1>1, <1>2, <2>1, <3>1, <3>2, RecordKeeps
  <2>3. CASE ~(e.kind = "entered" /\ e.who \in rows)
    <3>1. /\ ingest' = [step |-> "write", saved |-> row.meta] /\ UNCHANGED feed
          /\ row' = IF e.kind = "sealed" THEN [row EXCEPT !.status = "sealed"] ELSE row
      BY <1>3, <2>3 DEF IngestRead
    <3>2. ingest' \in [step : {"idle", "write"}, saved : Meta] /\ ingest'.saved = row.meta
      BY <1>2, <3>1
    <3>3. row' \in [status : Statuses, meta : Meta] /\ row'.meta = row.meta
      BY <1>2, <3>1 DEF Statuses
    <3>4. feed' \in Seq(Events) /\ FeedSound'
      BY <1>0, <1>1, <1>2, <3>1 DEF FeedSound
    <3> QED
      BY <1>1, <1>2, <2>1, <3>2, <3>3, <3>4, RecordKeeps
  <2> QED
    BY <2>2, <2>3
<1>4. CASE IngestWrite
  <2>1. feed' = Tail(feed) /\ ingest' = NoTx
    BY <1>4 DEF IngestWrite
  <2>2. /\ ingest' \in [step : {"idle", "write"}, saved : Meta] /\ ingest'.step = "idle"
        /\ Sound(ingest'.saved, Entrants, state)
    BY <1>0, <2>1, Freshness DEF NoTx
  <2>3. feed' \in Seq(Events) /\ FeedSound'
    BY <1>1, <2>1, <2>2, EventApplied
  <2>4. rows' \subseteq entered /\ row' \in [status : Statuses, meta : Meta] /\ Sound(row'.meta, Entrants, state)
    <3>1. CASE e.kind = "entered"
      <4>1. e.who \in entered
        <5>1. 1 \in DOMAIN feed /\ e = feed[1]
          BY <1>1, <1>2
        <5> QED
          BY <1>0, <3>1, <5>1 DEF FeedSound
      <4> PICK n : n = Cardinality(rows')
        OBVIOUS
      <4> PICK m : m = [ingest.saved EXCEPT !.count = n]
        OBVIOUS
      <4>2. rows' = rows \cup {e.who} /\ row' = [row EXCEPT !.meta = m]
        BY <1>4, <3>1 DEF IngestWrite
      <4>3. rows' \subseteq entered
        BY <1>2, <4>1, <4>2
      <4>4. n \in Nat /\ Entrants \in Nat /\ n <= Entrants /\ Entrants <= Capacity /\ Capacity \in Nat
        <5>1. entered \in SUBSET Users /\ rows' \in SUBSET Users /\ rows' \in SUBSET entered
          BY <1>0, <4>3 DEF TypeOK
        <5> QED
          BY <1>0, <5>1, Counting, ParticipationAssumption DEF Entrants, Seated
      <4>5. m \in Meta /\ m.count = n /\ m.settlement = ingest.saved.settlement
        BY <1>2, <4>4 DEF Meta
      <4>6. row' \in [status : Statuses, meta : Meta] /\ row'.meta = m
        BY <1>2, <4>2, <4>5
      <4> QED
        BY <1>2, <4>3, <4>4, <4>5, <4>6 DEF Sound
    <3>2. CASE e.kind # "entered"
      <4>1. e.kind \in Phases
        BY <3>2 DEF Events, Phases
      <4> PICK m : m = [ingest.saved EXCEPT !.phase = e.kind]
        OBVIOUS
      <4>2. m \in Meta /\ Sound(m, Entrants, state)
        BY <1>2, <4>1, Rephased
      <4>3. UNCHANGED rows /\ row' = [row EXCEPT !.meta = m]
        BY <1>4, <3>2 DEF IngestWrite
      <4> QED
        BY <1>2, <4>2, <4>3
    <3> QED
      BY <3>1, <3>2
  <2> QED
    BY <1>1, <2>2, <2>3, <2>4, RecordKeeps
<1> QED
    BY <1>3, <1>4 DEF Ingest

LEMMA ReplayKeeps ==
    ASSUME IInv, Replay
    PROVE  IInv'
<1>0. TypeOK /\ Seated /\ LoadsPending /\ RowSound
    BY DEF IInv
<1>1. UNCHANGED <<now, state, entered, scored, allowed, row, rows, ingest, load, page, panel, desk>>
      /\ left' \in [Spending -> 0..Unlimited]
    BY <1>0, Spent DEF Replay, record, Spending
<1> PICK e \in [kind : {"entered"}, who : rows] \cup [kind : {k \in {"frozen", "sealed"} : state \in {k, "sealed"}}] :
        feed' = Append(feed, e)
    BY DEF Replay
<1>2. e \in Events /\ (e.kind = "entered" => e.who \in entered)
    BY <1>0 DEF Events, TypeOK
<1>3. feed' \in Seq(Events) /\ FeedSound'
    BY <1>1, <1>2, Emitted
<1>4. Forward
    BY <1>0, <1>1 DEF TypeOK, Forward
<1>5. RowSound' /\ LoadsKnow' /\ PagesSound' /\ DeskSound' /\ Cleared'
    BY <1>1, <1>4, CopiesStay, ClearedStays
<1>6. TypeOK' /\ Seated' /\ LoadsPending'
    BY <1>0, <1>1, <1>3 DEF TypeOK, Seated, Entrants, LoadsPending
<1> QED
    BY <1>3, <1>5, <1>6 DEF IInv

-----------------------------------------------------------------------------
(* Panels and the desk                                                       *)

\* Only a panel moves.
LEMMA PanelKeeps ==
    ASSUME IInv, UNCHANGED <<now, chain, record, load, page, desk>>, left' \in [Spending -> 0..Unlimited],
           panel' \in [Users -> PanelType], Cleared'
    PROVE  IInv'
<1>0. TypeOK /\ LoadsPending
    BY DEF IInv
<1>1. UNCHANGED <<row, rows, ingest>> /\ UNCHANGED <<now, state, entered, scored, allowed, feed>>
      /\ Forward /\ Seated' /\ FeedSound'
    BY ChainStands DEF record
<1>2. RowSound' /\ LoadsKnow' /\ PagesSound' /\ DeskSound'
    BY <1>1, CopiesStay
<1>3. TypeOK' /\ LoadsPending'
    BY <1>0, <1>1 DEF TypeOK, PanelType, LoadsPending
<1> QED
    BY <1>1, <1>2, <1>3 DEF IInv

\* A click, or an answer that asks nothing of the wallet.
PlainStep(u) ==
    \/ ClickPlan(u) \/ ClickApprove(u) \/ ClickExecute(u) \/ ClickSettle(u) \/ ClickClaim(u) \/ ClickRedeem(u)
    \/ SettleAnswered(u) \/ ClaimAnswered(u) \/ RedeemAnswered(u) \/ Refuse(u) \/ RequestFails(u)

LEMMA PlainKeeps ==
    ASSUME IInv, NEW u \in Users, PlainStep(u)
    PROVE  IInv'
<1>0. TypeOK
    BY DEF IInv
<1>1. UNCHANGED <<now, chain, record, load, page, desk>>
    BY DEF PlainStep, ClickPlan, ClickApprove, ClickExecute, ClickSettle, ClickClaim, ClickRedeem,
           SettleAnswered, ClaimAnswered, RedeemAnswered, Refuse, RequestFails
<1>2. UNCHANGED left \/ (\E what \in Spending : Spend(what))
  <2>1. "click" \in Spending /\ "fault" \in Spending
    BY DEF Spending
  <2> QED
    BY <2>1 DEF PlainStep, ClickPlan, ClickApprove, ClickExecute, ClickSettle, ClickClaim, ClickRedeem,
           SettleAnswered, ClaimAnswered, RedeemAnswered, Refuse, RequestFails
<1>3. left' \in [Spending -> 0..Unlimited]
    BY <1>0, <1>2, Spent DEF TypeOK
<1>4. \E step \in Steps \ {"register"} : Goto(u, step)
  <2>1. CASE SettleAnswered(u)
    <3> PICK s : s = [none |-> "idle", ready |-> "settleSend", executed |-> "refresh"][row.meta.settlement]
      OBVIOUS
    <3>1. Goto(u, s)
      BY <2>1 DEF SettleAnswered
    <3>2. row.meta.settlement \in {"none", "ready", "executed"}
      BY <1>0 DEF TypeOK, Meta
    <3>3. s \in {"idle", "settleSend", "refresh"}
      BY <3>2
    <3>4. s \in Steps \ {"register"}
      BY <3>3 DEF Steps
    <3> QED
      BY <3>1, <3>4
  <2>2. CASE ~SettleAnswered(u)
    <3>1. {"idle", "plan", "approve", "execute", "settle", "claim", "redeem"} \subseteq Steps \ {"register"}
      BY DEF Steps
    <3> QED
      BY <2>2, <3>1 DEF PlainStep, ClickPlan, ClickApprove, ClickExecute, ClickSettle, ClickClaim, ClickRedeem,
           ClaimAnswered, RedeemAnswered, Refuse, RequestFails
  <2> QED
    BY <2>1, <2>2
<1>5. panel' \in [Users -> PanelType] /\ Cleared'
    BY <1>1, <1>4, PanelGoes DEF chain
<1> QED
    BY <1>1, <1>3, <1>5, PanelKeeps

\* A plan: what is ready is what the rows and the allowance allow.
LEMMA PlansAre ==
    ASSUME IInv, NEW u \in Users, NEW plan \in Plans(u)
    PROVE  /\ plan \in Plan
           /\ plan.ready => u \notin rows /\ Cardinality(rows) < Capacity /\ u \in allowed
<1> PICK missing \in {u \notin allowed, TRUE} : plan = Evaluate(u, missing)
    BY DEF Plans
<1>1. missing \in BOOLEAN /\ (~missing => u \in allowed)
    OBVIOUS
<1> PICK ready : ready = (Open(row.meta) /\ Cardinality(rows) < Capacity /\ u \notin rows /\ ~missing)
    OBVIOUS
<1>2. plan = [ready |-> ready, missing |-> missing]
    BY DEF Evaluate
<1>3. ready \in BOOLEAN /\ (ready => u \notin rows /\ Cardinality(rows) < Capacity /\ ~missing)
    BY Zenon
<1>4. plan.ready = ready /\ plan \in Plan
    BY <1>1, <1>2, <1>3 DEF Plan
<1> QED
    BY <1>1, <1>3, <1>4

LEMMA PlanKeeps ==
    ASSUME IInv, NEW u \in Users, PlanAnswered(u) \/ ExecuteAnswered(u)
    PROVE  IInv'
<1>0. TypeOK
    BY DEF IInv
<1>1. UNCHANGED <<now, chain, record, load, page, desk>> /\ UNCHANGED allowed
    BY DEF PlanAnswered, ExecuteAnswered, chain
<1> PICK plan \in Plans(u) :
        /\ Fail(u, plan)
        /\ \/ panel' = [panel EXCEPT ![u].step = "idle", ![u].plan = plan]
           \/ panel' = [panel EXCEPT ![u].step = IF plan.ready THEN "register" ELSE "refresh", ![u].seen = rows]
    BY DEF PlanAnswered, ExecuteAnswered
<1>2. plan \in Plan /\ (plan.ready => u \notin rows /\ Cardinality(rows) < Capacity /\ u \in allowed)
    BY PlansAre
<1>3. left' \in [Spending -> 0..Unlimited]
    BY <1>0, Spent DEF Fail, TypeOK, Spending
<1>4. panel \in [Users -> PanelType] /\ panel[u] \in PanelType /\ rows \subseteq Users
    BY <1>0 DEF TypeOK, PanelType
<1>5. CASE panel' = [panel EXCEPT ![u].step = "idle", ![u].plan = plan]
  <2> PICK p : p = [panel[u] EXCEPT !.step = "idle", !.plan = plan]
    OBVIOUS
  <2>1. p \in PanelType /\ p.step = "idle"
    BY <1>2, <1>4 DEF PanelType, Steps
  <2>2. panel' = [panel EXCEPT ![u] = p]
    BY <1>4, <1>5
  <2>3. panel' \in [Users -> PanelType] /\ Cleared'
    BY <1>1, <2>1, <2>2, PanelMoves
  <2> QED
    BY <1>1, <1>3, <2>3, PanelKeeps
<1>6. CASE panel' = [panel EXCEPT ![u].step = IF plan.ready THEN "register" ELSE "refresh", ![u].seen = rows]
  <2> PICK s \in {"register", "refresh"} : s = (IF plan.ready THEN "register" ELSE "refresh")
    OBVIOUS
  <2> PICK p : p = [panel[u] EXCEPT !.step = s, !.seen = rows]
    OBVIOUS
  <2>1. p \in PanelType /\ p.step = s /\ p.seen = rows
    BY <1>4 DEF PanelType, Steps
  <2>2. panel' = [panel EXCEPT ![u] = p]
    BY <1>4, <1>6
  <2>3. panel' \in [Users -> PanelType] /\ Cleared'
    BY <1>1, <1>2, <2>1, <2>2, PanelMoves
  <2> QED
    BY <1>1, <1>3, <2>3, PanelKeeps
<1> QED
    BY <1>5, <1>6

\* Only the row and the desk move.
LEMMA DeskKeeps ==
    ASSUME IInv, UNCHANGED <<now, chain, rows, ingest, load, page, panel>>, left' \in [Spending -> 0..Unlimited],
           row' \in [status : Statuses, meta : Meta], Sound(row'.meta, Entrants, state),
           desk' \in DeskType, DeskSound',
           desk.step \in {"plan", "confirm"} => desk'.step \in {"plan", "confirm"}
    PROVE  IInv'
<1>0. TypeOK /\ LoadsPending
    BY DEF IInv
<1>1. load' \in [Loaders -> LoadType] /\ page' \in [Visitors -> Meta] /\ panel' \in [Users -> PanelType]
    BY <1>0 DEF TypeOK, LoadType, PanelType
<1>2. LoadsKnow' /\ PagesSound' /\ Cleared'
    BY ChainStands, CopiesStay, ClearedStays
<1>3. LoadsPending'
    BY <1>0 DEF LoadsPending
<1> QED
    BY <1>1, <1>2, <1>3, LoadKeeps

LEMMA DeskStepKeeps ==
    ASSUME IInv, (\E act \in Acts : ClickAct(act)) \/ AnswerPlan \/ Confirm \/ ConfirmRead \/ ConfirmWrite
    PROVE  IInv'
<1>0. TypeOK /\ RowSound /\ DeskSound
    BY DEF IInv
<1>1. UNCHANGED <<now, chain, rows, ingest, load, page, panel>> /\ UNCHANGED <<state, entered>>
    BY DEF ClickAct, AnswerPlan, Confirm, ConfirmRead, ConfirmWrite, record, chain
<1>2. left' \in [Spending -> 0..Unlimited]
    BY <1>0, Spent DEF ClickAct, AnswerPlan, Confirm, ConfirmRead, ConfirmWrite, Spending, TypeOK
<1>3. /\ desk \in DeskType /\ row \in [status : Statuses, meta : Meta] /\ row.meta \in Meta
      /\ Sound(row.meta, Entrants, state) /\ Sound(desk.saved, Entrants, state)
    BY <1>0 DEF TypeOK, DeskType, RowSound, DeskSound
<1>4. UNCHANGED Entrants
    BY <1>1 DEF Entrants
<1>5. CASE \E act \in Acts : ClickAct(act)
  <2> PICK act \in Acts : ClickAct(act)
    BY <1>5
  <2> PICK d : d = [NoAct EXCEPT !.step = "plan", !.act = act]
    OBVIOUS
  <2>1. desk' = d /\ UNCHANGED row
    BY DEF ClickAct, record
  <2>2. d \in DeskType /\ d.step = "plan" /\ d.saved = Fresh
    BY <1>0, Freshness DEF NoAct, DeskType, DeskSteps
  <2>3. DeskSound'
    BY <1>0, <1>1, <1>4, <2>1, <2>2, Freshness DEF DeskSound
  <2> QED
    BY <1>1, <1>2, <1>3, <2>1, <2>2, <2>3, DeskKeeps
<1>6. CASE AnswerPlan
  <2> PICK d : d = [desk EXCEPT !.step = "send"]
    OBVIOUS
  <2>1. UNCHANGED row /\ desk.step = "planned" /\ (desk' = d \/ desk' = NoAct)
    BY <1>6 DEF AnswerPlan, record
  <2>2. d \in DeskType /\ d.step = "send" /\ d.saved = desk.saved
    BY <1>3 DEF DeskType, DeskSteps
  <2>3. desk' \in DeskType /\ DeskSound'
    BY <1>0, <1>1, <1>3, <1>4, <2>1, <2>2, Freshness DEF DeskSound
  <2> QED
    BY <1>1, <1>2, <1>3, <2>1, <2>3, DeskKeeps
<1>7. CASE Confirm
  <2> PICK d : d = [desk EXCEPT !.step = "read"]
    OBVIOUS
  <2>1. UNCHANGED row /\ desk.step = "confirmed" /\ ((desk' = d /\ state = After[desk.act]) \/ desk' = NoAct)
    BY <1>7 DEF Confirm, record
  <2>2. d \in DeskType /\ d.step = "read" /\ d.saved = desk.saved /\ d.act = desk.act
    BY <1>3 DEF DeskType, DeskSteps
  <2>3. desk.act \in {"freeze", "seal"}
    BY <1>0, <1>3, <2>1 DEF DeskSound, DeskType, Acts
  <2>4. After["freeze"] = "frozen" /\ After["seal"] = "sealed"
    BY DEF After
  <2>5. desk' \in DeskType /\ DeskSound'
    BY <1>0, <1>1, <1>3, <1>4, <2>1, <2>2, <2>3, <2>4, Freshness, ZenonT(40) DEF DeskSound
  <2> QED
    BY <1>1, <1>2, <1>3, <2>1, <2>5, DeskKeeps
<1>8. CASE ConfirmRead
  <2> PICK d : d = [desk EXCEPT !.step = "write", !.saved = row.meta]
    OBVIOUS
  <2>1. UNCHANGED row /\ desk.step = "read" /\ desk' = d
    BY <1>8 DEF ConfirmRead, record
  <2>2. d \in DeskType /\ d.step = "write" /\ d.saved = row.meta /\ d.act = desk.act
    BY <1>3 DEF DeskType, DeskSteps
  <2>3. DeskSound'
    BY <1>0, <1>1, <1>3, <1>4, <2>1, <2>2 DEF DeskSound
  <2> QED
    BY <1>1, <1>2, <1>3, <2>1, <2>2, <2>3, DeskKeeps
<1>9. CASE ConfirmWrite
  <2>0. desk.step = "write" /\ desk' = NoAct
    BY <1>9 DEF ConfirmWrite
  <2>1. desk.act \in {"freeze", "seal"} /\ state \in {"frozen", "sealed"} /\ (desk.act = "seal" => state = "sealed")
    BY <1>0, <1>3, <2>0 DEF DeskSound, DeskType, Acts
  <2> PICK phase : phase = After[desk.act]
    OBVIOUS
  <2> PICK settlement : settlement = SettlementOf(desk.act)
    OBVIOUS
  <2> PICK m : m = [desk.saved EXCEPT !.phase = phase, !.settlement = settlement]
    OBVIOUS
  <2> PICK status : status = (IF desk.act = "seal" THEN "sealed" ELSE row.status)
    OBVIOUS
  <2>2. row' = [status |-> status, meta |-> m]
    BY <1>9 DEF ConfirmWrite
  <2>3. After["freeze"] = "frozen" /\ After["seal"] = "sealed"
    BY DEF After
  <2>4. phase \in Phases /\ settlement = (IF desk.act = "seal" THEN "executed" ELSE "ready") /\ status \in Statuses
    BY <1>3, <2>1, <2>3 DEF Phases, SettlementOf, Statuses
  <2>5. desk.saved \in Meta
    BY <1>3 DEF DeskType
  <2>6. m \in Meta /\ m.count = desk.saved.count /\ m.settlement = settlement
    BY <2>4, <2>5 DEF Meta
  <2>7. row' \in [status : Statuses, meta : Meta] /\ Sound(row'.meta, Entrants, state)
    BY <1>3, <2>1, <2>2, <2>4, <2>6 DEF Sound
  <2>8. desk' \in DeskType /\ DeskSound'
    BY <1>0, <1>1, <1>4, <2>0, Freshness DEF DeskSound
  <2> QED
    BY <1>1, <1>2, <2>0, <2>7, <2>8, DeskKeeps
<1> QED
    BY <1>5, <1>6, <1>7, <1>8, <1>9

-----------------------------------------------------------------------------
(* The whole                                                                 *)

LEMMA InitHolds == Init => IInv
<1> SUFFICES ASSUME Init
             PROVE  IInv
    OBVIOUS
<1>1. PICK s \in Scenarios : entered = s.entered /\ left = s.budget
    BY DEF Init
<1>2. entered \in SUBSET Users /\ left \in [Spending -> 0..Unlimited] /\ Entrants <= Capacity /\ Capacity \in Nat
    BY <1>1, ParticipationAssumption DEF Entrants
<1>3. Entrants \in Nat
    BY <1>2, Counting DEF Entrants
<1> PICK m : m = [Fresh EXCEPT !.count = Entrants]
    OBVIOUS
<1>4. m \in Meta /\ m.count = Entrants /\ m.settlement = "none"
    BY <1>2, <1>3 DEF Fresh, Meta, Phases
<1>5. Fresh \in Meta /\ Fresh.count = 0 /\ Fresh.settlement = "none"
    BY <1>2 DEF Fresh, Meta, Phases
<1>6. Sound(m, Entrants, state) /\ Sound(Fresh, Entrants, state)
    BY <1>2, <1>3, <1>4, <1>5 DEF Sound
<1>7. row = [status |-> "registered", meta |-> m] /\ row.meta = m
    BY DEF Init, Entrants
<1>8. TypeOK
  <2>1. now \in 0..MaxTime /\ state \in States /\ scored \subseteq entered /\ allowed \subseteq Users /\ rows \subseteq entered
    BY ParticipationAssumption DEF Init, States
  <2>2. feed \in Seq(Events) /\ row \in [status : Statuses, meta : Meta]
    BY <1>4, <1>7 DEF Init, Statuses
  <2>3. ingest \in [step : {"idle", "write"}, saved : Meta]
    BY <1>5 DEF Init, NoTx
  <2>4. load \in [Loaders -> [step : {"idle", "read", "write"}, from : Statuses, shown : Meta, saved : Meta]]
    BY <1>5 DEF Init, NoLoad, Statuses
  <2>5. page \in [Visitors -> Meta]
    BY <1>4, <1>7 DEF Init
  <2>6. panel \in [Users -> [step : Steps, plan : Plan, seen : SUBSET Users]]
    BY DEF Init, NoPlan, Plan, Steps
  <2>7. desk \in [step : DeskSteps, act : Acts, ok : BOOLEAN, saved : Meta]
    BY <1>5 DEF Init, NoAct, DeskSteps, Acts
  <2> QED
    BY <1>2, <2>1, <2>2, <2>3, <2>4, <2>5, <2>6, <2>7 DEF TypeOK
<1>9. RowSound /\ DeskSound
  <2>1. ingest.saved = Fresh /\ desk.saved = Fresh /\ desk.step = "idle"
    BY DEF Init, NoTx, NoAct
  <2> QED
    BY <1>6, <1>7, <2>1 DEF RowSound, DeskSound
<1>10. LoadsKnow /\ LoadsPending
  <2>1. \A v \in Loaders : /\ load[v].step = "idle" /\ load[v].from = "registered"
                           /\ load[v].shown = Fresh /\ load[v].saved = Fresh
    BY DEF Init, NoLoad
  <2> QED
    BY <1>6, <2>1, Names DEF LoadsKnow, LoadsPending
<1>11. PagesSound
  <2>1. \A v \in Visitors : page[v] = m
    BY <1>7 DEF Init
  <2> QED
    BY <1>6, <2>1 DEF PagesSound
<1>12. FeedSound
  <2>1. feed = <<>> /\ ingest.step = "idle"
    BY DEF Init, NoTx
  <2> QED
    BY <2>1 DEF FeedSound
<1>13. Cleared
  <2>1. \A u \in Users : panel[u].step = "idle"
    BY DEF Init
  <2> QED
    BY <2>1 DEF Cleared
<1> QED
    BY <1>2, <1>8, <1>9, <1>10, <1>11, <1>12, <1>13 DEF IInv, Seated

LEMMA TickKeeps ==
    ASSUME IInv, Tick
    PROVE  IInv'
<1>0. TypeOK /\ Seated /\ LoadsPending
    BY DEF IInv
<1>1. UNCHANGED <<state, entered, scored, allowed, feed, row, rows, ingest, load, page, panel, desk, left>>
    BY DEF Tick, chain, record
<1>2. now' \in 0..MaxTime
    BY <1>0, ParticipationAssumption DEF Tick, TypeOK
<1>3. Forward
    BY <1>0, <1>1 DEF TypeOK, Forward
<1>4. RowSound' /\ LoadsKnow' /\ PagesSound' /\ DeskSound' /\ Cleared' /\ FeedSound'
    BY <1>1, <1>3, CopiesStay, ClearedStays, FeedStays
<1>5. TypeOK' /\ Seated' /\ LoadsPending'
    BY <1>0, <1>1, <1>2 DEF TypeOK, Seated, Entrants, LoadsPending
<1> QED
    BY <1>4, <1>5 DEF IInv

LEMMA StillHolds ==
    ASSUME IInv, UNCHANGED vars
    PROVE  IInv'
<1>0. TypeOK /\ Seated /\ LoadsPending
    BY DEF IInv
<1>1. UNCHANGED <<now, state, entered, scored, allowed, feed, row, rows, ingest, load, page, panel, desk, left>>
    BY DEF vars, chain, record
<1>2. Forward
    BY <1>0, <1>1 DEF TypeOK, Forward
<1>3. RowSound' /\ LoadsKnow' /\ PagesSound' /\ DeskSound' /\ Cleared' /\ FeedSound'
    BY <1>1, <1>2, CopiesStay, ClearedStays, FeedStays
<1>4. TypeOK' /\ Seated' /\ LoadsPending'
    BY <1>0, <1>1 DEF TypeOK, Seated, Entrants, LoadsPending
<1> QED
    BY <1>3, <1>4 DEF IInv

\* Pages and lists are loaded, by somebody other than the desk or by it.
LEMMA LoadedKeeps ==
    ASSUME IInv,
           \/ \E v \in Visitors : Visit(v)
           \/ Browse \/ DeskLoad
           \/ \E u \in Users : Refresh(u)
    PROVE  IInv'
<1>0. TypeOK
    BY DEF IInv
<1>1. ASSUME NEW v \in Visitors, Visit(v)
      PROVE  IInv'
  <2>1. Query(v) /\ v \in Loaders /\ v # Desk /\ left' \in [Spending -> 0..Unlimited]
    BY <1>0, <1>1, Names, Spent DEF Visit, Spending
  <2> QED
    BY <2>1, QueryKeeps
<1>2. CASE Browse
  <2>1. Query(Others) /\ left' \in [Spending -> 0..Unlimited]
    BY <1>0, <1>2, Spent DEF Browse, Spending
  <2> QED
    BY <2>1, Names, QueryKeeps
<1>3. CASE DeskLoad
  <2>1. Query(Desk) /\ desk.step \in {"plan", "confirm"} /\ left' \in [Spending -> 0..Unlimited]
    BY <1>0, <1>3 DEF DeskLoad, TypeOK
  <2> QED
    BY <2>1, Names, QueryKeeps
<1>4. ASSUME NEW u \in Users, Refresh(u)
      PROVE  IInv'
  <2>1. Query(u) /\ u \in Loaders /\ u # Desk /\ left' \in [Spending -> 0..Unlimited]
    BY <1>0, <1>4, Names DEF Refresh, TypeOK
  <2> QED
    BY <2>1, QueryKeeps
<1> QED
    BY <1>1, <1>2, <1>3, <1>4

\* What a step may be.
UserStep(u) == PlainStep(u) \/ PlanAnswered(u) \/ ExecuteAnswered(u) \/ Approve(u) \/ Register(u) \/ Settle(u)
DeskStep    == (\E act \in Acts : ClickAct(act)) \/ AnswerPlan \/ Confirm \/ ConfirmRead \/ ConfirmWrite
LoadStep    == \/ \E v \in Visitors : Visit(v)
               \/ Browse \/ DeskLoad
               \/ \E u \in Users : Refresh(u)

LEMMA NextIs ==
    ASSUME Next
    PROVE  \/ Tick \/ ServiceActs \/ Ingest \/ Replay \/ SendAct \/ DeskStep \/ LoadStep
           \/ \E v \in Loaders : SyncRead(v) \/ SyncWrite(v) \/ SyncFails(v)
           \/ \E u \in Users : UserStep(u)
<1>1. CASE \E u \in Users : \/ Serve(u) \/ Wallet(u) \/ RequestFails(u)
                            \/ ClickPlan(u) \/ ClickApprove(u) \/ ClickExecute(u) \/ ClickSettle(u)
                            \/ ClickClaim(u) \/ ClickRedeem(u)
    BY <1>1 DEF Serve, Wallet, UserStep, PlainStep, LoadStep
<1>2. CASE DoAct
    BY <1>2 DEF DoAct, DeskStep, LoadStep
<1> QED
    BY <1>1, <1>2 DEF Next, Load, DeskStep, LoadStep

LEMMA Inductive == IInv /\ [Next]_vars => IInv'
<1> SUFFICES ASSUME IInv, [Next]_vars
             PROVE  IInv'
    OBVIOUS
<1>1. CASE UNCHANGED vars
    BY <1>1, StillHolds
<1>2. CASE Tick \/ ServiceActs \/ Ingest \/ Replay \/ SendAct
    BY <1>2, TickKeeps, ServiceKeeps, IngestKeeps, ReplayKeeps, SendActKeeps
<1>3. CASE DeskStep
    BY <1>3, DeskStepKeeps DEF DeskStep
<1>4. CASE LoadStep
    BY <1>4, LoadedKeeps DEF LoadStep
<1>5. ASSUME NEW v \in Loaders, SyncRead(v) \/ SyncWrite(v) \/ SyncFails(v)
      PROVE  IInv'
    BY <1>5, SyncReadKeeps, SyncEndKeeps
<1>6. ASSUME NEW u \in Users, UserStep(u)
      PROVE  IInv'
    BY <1>6, PlainKeeps, PlanKeeps, WalletKeeps DEF UserStep
<1> QED
    BY <1>1, <1>2, <1>3, <1>4, <1>5, <1>6, NextIs

LEMMA Invariance == Spec => []IInv
BY InitHolds, Inductive, PTL DEF Spec

-----------------------------------------------------------------------------
(* Theorems                                                                  *)

\* No variable leaves its type: no count beyond maxParticipants is ever read,
\* written or shown, and only entrants are settled.
THEOREM ParticipationTyped == Spec => []TypeOK
<1>1. IInv => TypeOK
    BY DEF IInv
<1> QED
    BY <1>1, Invariance, PTL

\* However many loads, confirmations and events write back old copies of the
\* row, no page says full before the contest is, and the settlement block is
\* never ahead of the contract (registrationCapacity, buildSettlementMetadata).
THEOREM PagesAreNeverAhead == Spec => []NeverAhead
<1>1. IInv => NeverAhead
  <2> SUFFICES ASSUME IInv
               PROVE  NeverAhead
    OBVIOUS
  <2>1. FullMeansFull
    <3> SUFFICES ASSUME NEW v \in Visitors, Full(page[v])
                 PROVE  Entrants = Capacity
      BY DEF FullMeansFull, Entrants
    <3>1. entered \in SUBSET Users /\ page[v].count \in 0..Capacity /\ page[v].count <= Entrants /\ Entrants <= Capacity
      BY DEF IInv, TypeOK, Meta, PagesSound, Sound, Seated
    <3>2. Entrants \in Nat /\ Capacity \in Nat
      BY <3>1, Counting, ParticipationAssumption DEF Entrants
    <3> QED
      BY <3>1, <3>2 DEF Full
  <2>2. SettlementKnown
    BY DEF IInv, RowSound, Sound, SettlementKnown
  <2> QED
    BY <2>1, <2>2 DEF NeverAhead
<1> QED
    BY <1>1, Invariance, PTL

\* A registration that the server found ready, by rows that may be behind the
\* chain, reverts there only because registration ended or somebody's entry was
\* not indexed yet (executeParticipantRegistration).
THEOREM RevertsStayRaces == Spec => RevertsAreRaces
<1> DEFINE Raced == \A u \in Users : Register(u) /\ ~CanRegister(u) =>
                        Synced # "registering" \/ entered # panel[u].seen
<1>1. IInv /\ [Next]_vars => [Raced]_vars
  <2> SUFFICES ASSUME IInv, NEW u \in Users, Register(u), Synced = "registering", entered = panel[u].seen
               PROVE  CanRegister(u)
    OBVIOUS
  <2>1. panel[u].step = "register"
    BY DEF Register
  <2> QED
    BY <2>1 DEF IInv, Cleared, CanRegister
<1> HIDE DEF Raced
<1>2. Spec => [][Raced]_vars
    BY <1>1, Invariance, PTL DEF Spec
<1> QED
    BY <1>2 DEF RevertsAreRaces, Raced

=============================================================================
