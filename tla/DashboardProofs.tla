--------------------------- MODULE DashboardProofs ---------------------------
(***************************************************************************)
(* Whatever order the answers come in and whenever the access ends, the     *)
(* page shows nothing that is not its user's to see, nothing of another     *)
(* node and nothing that is known to be outdated.                           *)
(***************************************************************************)
EXTENDS Dashboard, TLAPS

Server == [valid : BOOLEAN, public : BOOLEAN, nodes : SUBSET Node]
View == [admin : BOOLEAN, public : BOOLEAN, nodes : SUBSET Node,
         selected : Node \cup {None}, points : Node \cup {None},
         config : BOOLEAN, credential : BOOLEAN,
         form : Node \cup {"global", "default"}]
Status == {"sent", "ok", "denied", "failed"}
Body == [admin : BOOLEAN, public : BOOLEAN, nodes : SUBSET Node]
Request == [step : Steps \cup {"idle"}, node : Node \cup {None},
            status : Status, got : Body,
            auth : BOOLEAN, latest : BOOLEAN, wanted : BOOLEAN,
            cookie : BOOLEAN, before : BOOLEAN]

\* The requests only an administrator makes.
Privileged ==
    {"open", "settings", "reload", "add", "remove", "rotate", "save", "put"}

\* What a request relies on: one whose answer would be taken for an
\* administrator's was sent by a page that has one, and one from before a login,
\* a logout or a change is outdated.
Sane(q, admin) ==
    /\ q \in Request
    /\ q.step = "history" => q.node \in Node
    /\ q.step \in Privileged /\ q.auth => admin
    /\ q.before => ~q.auth \/ ~q.latest

AllSane(fl, admin) ==
    /\ fl \in [Flow -> Request]
    /\ \A f \in Flow : Sane(fl[f], admin)

\* What a page may show.
Shown(v) ==
    /\ v \in View
    /\ v.config \/ v.credential => v.admin
    /\ v.selected # None => v.points \in {None, v.selected}
    /\ v.selected \in v.nodes \cup {None}

IInv ==
    /\ server \in Server
    /\ Shown(view)
    /\ AllSane(flows, view.admin)
    /\ calm \in BOOLEAN /\ acts \in 0..MaxActs /\ elsewhere \in 0..MaxElsewhere

-----------------------------------------------------------------------------
(* The requests: what the version counters do to them.                      *)

LEMMA AskSane ==
    ASSUME NEW step \in Steps \cup {"idle"}, NEW node \in Node \cup {None},
           NEW admin \in BOOLEAN,
           step = "history" => node \in Node, step \in Privileged => admin
    PROVE  Sane(Ask(step, node), admin)
<1>1. Unanswered \in Body
  BY DEF Unanswered, Body
<1>2. Ask(step, node) \in Request
  BY <1>1 DEF Ask, Request, Status
<1>3. /\ Ask(step, node).step = step /\ Ask(step, node).node = node
      /\ Ask(step, node).before = FALSE
  BY DEF Ask
<1> QED  BY <1>2, <1>3 DEF Sane

LEMMA IdleSane == ASSUME NEW admin \in BOOLEAN PROVE Sane(Idle, admin)
  BY AskSane DEF Idle, Privileged

LEMMA PutSane ==
    ASSUME NEW admin \in BOOLEAN, NEW fl, AllSane(fl, admin),
           NEW f \in Flow, NEW q, Sane(q, admin)
    PROVE  AllSane([fl EXCEPT ![f] = q], admin)
<1>1. fl \in [Flow -> Request] /\ q \in Request
  BY DEF AllSane, Sane
<1>2. [fl EXCEPT ![f] = q] \in [Flow -> Request]
  BY <1>1
<1>3. ASSUME NEW g \in Flow PROVE Sane([fl EXCEPT ![f] = q][g], admin)
  <2>1. CASE g = f
    BY <2>1, <1>1
  <2>2. CASE g # f
    BY <2>2, <1>1 DEF AllSane
  <2> QED  BY <2>1, <2>2
<1> QED  BY <1>2, <1>3 DEF AllSane

LEMMA EndedSane ==
    ASSUME NEW admin \in BOOLEAN, NEW fl, AllSane(fl, admin), NEW f \in Flow
    PROVE  AllSane(Ended(fl, f), admin)
  BY PutSane, IdleSane DEF Ended

\* A new authVersion outdates whatever is under way, so that nothing relies on
\* the page's user any more.
LEMMA NewAuthSane ==
    ASSUME NEW admin \in BOOLEAN, NEW fl, AllSane(fl, admin),
           NEW b \in BOOLEAN
    PROVE  /\ AllSane(NewAuth(fl), b)
           /\ \A f \in Flow : NewAuth(fl)[f].step # "idle" =>
                    ~NewAuth(fl)[f].auth
<1> DEFINE new == NewAuth(fl)
<1>1. ASSUME NEW f \in Flow
      PROVE  Sane(new[f], b) /\ (new[f].step # "idle" => ~new[f].auth)
  <2>1. fl[f] \in Request /\ Sane(fl[f], admin)
    BY DEF AllSane
  <2> DEFINE a == fl[f].auth /\ f \notin At(fl, Steps)
  <2>2. new[f] = [fl[f] EXCEPT !.auth = a]
    BY DEF NewAuth
  <2>3. a \in BOOLEAN /\ (fl[f].step # "idle" => ~a) /\ (a => fl[f].auth)
    BY <2>1 DEF At, Request
  <2> HIDE DEF a, new
  <2>4. /\ new[f] \in Request /\ new[f].auth = a
        /\ new[f].step = fl[f].step /\ new[f].node = fl[f].node
        /\ new[f].latest = fl[f].latest /\ new[f].before = fl[f].before
    BY <2>1, <2>2, <2>3 DEF Request
  <2> QED  BY <2>1, <2>3, <2>4 DEF Sane, Privileged
<1>2. new \in [Flow -> Request]
  <2>1. new = [f \in Flow |-> new[f]]
    BY DEF NewAuth
  <2> HIDE DEF new
  <2> QED  BY <1>1, <2>1 DEF Sane
<1> HIDE DEF new
<1>3. AllSane(new, b) /\ \A f \in Flow : new[f].step # "idle" => ~new[f].auth
  BY <1>1, <1>2 DEF AllSane
<1> QED  BY <1>3 DEF new

LEMMA NewHistorySane ==
    ASSUME NEW admin \in BOOLEAN, NEW fl, AllSane(fl, admin)
    PROVE  /\ AllSane(NewHistory(fl), admin)
           /\ \A f \in Flow : /\ NewHistory(fl)[f].step = fl[f].step
                              /\ NewHistory(fl)[f].auth = fl[f].auth
<1> DEFINE new == NewHistory(fl)
<1>1. ASSUME NEW f \in Flow
      PROVE  /\ Sane(new[f], admin)
             /\ new[f].step = fl[f].step /\ new[f].auth = fl[f].auth
  <2>1. fl[f] \in Request /\ Sane(fl[f], admin)
    BY DEF AllSane
  <2> DEFINE w == fl[f].wanted /\ f \notin At(fl, {"history"})
  <2>2. new[f] = [fl[f] EXCEPT !.wanted = w]
    BY DEF NewHistory
  <2>3. w \in BOOLEAN
    OBVIOUS
  <2> HIDE DEF w, new
  <2>4. /\ new[f] \in Request /\ new[f].auth = fl[f].auth
        /\ new[f].step = fl[f].step /\ new[f].node = fl[f].node
        /\ new[f].latest = fl[f].latest /\ new[f].before = fl[f].before
    BY <2>1, <2>2, <2>3 DEF Request
  <2> QED  BY <2>1, <2>4 DEF Sane
<1>2. new \in [Flow -> Request]
  <2>1. new = [f \in Flow |-> new[f]]
    BY DEF NewHistory
  <2> HIDE DEF new
  <2> QED  BY <1>1, <2>1 DEF Sane
<1> HIDE DEF new
<1>3. /\ AllSane(new, admin)
      /\ \A f \in Flow : new[f].step = fl[f].step /\ new[f].auth = fl[f].auth
  BY <1>1, <1>2 DEF AllSane
<1> QED  BY <1>3 DEF new

LEMMA NewRefreshSane ==
    ASSUME NEW admin \in BOOLEAN, NEW fl, AllSane(fl, admin)
    PROVE  AllSane(NewRefresh(fl), admin)
<1> DEFINE new == NewRefresh(fl)
<1>1. ASSUME NEW f \in Flow PROVE Sane(new[f], admin)
  <2>1. fl[f] \in Request /\ Sane(fl[f], admin)
    BY DEF AllSane
  <2> DEFINE l == fl[f].latest /\ f \notin At(fl, {"session", "data"})
  <2>2. new[f] = [fl[f] EXCEPT !.latest = l]
    BY DEF NewRefresh
  <2>3. l \in BOOLEAN /\ (l => fl[f].latest)
    OBVIOUS
  <2> HIDE DEF l, new
  <2>4. /\ new[f] \in Request /\ new[f].auth = fl[f].auth
        /\ new[f].step = fl[f].step /\ new[f].node = fl[f].node
        /\ new[f].latest = l /\ new[f].before = fl[f].before
    BY <2>1, <2>2, <2>3 DEF Request
  <2> QED  BY <2>1, <2>3, <2>4 DEF Sane
<1>2. new \in [Flow -> Request]
  <2>1. new = [f \in Flow |-> new[f]]
    BY DEF NewRefresh
  <2> HIDE DEF new
  <2> QED  BY <1>1, <2>1 DEF Sane
<1> HIDE DEF new
<1>3. AllSane(new, admin)
  BY <1>1, <1>2 DEF AllSane
<1> QED  BY <1>3 DEF new

\* Requests for nodes may be called old once they are outdated.
LEMMA OlderSane ==
    ASSUME NEW admin \in BOOLEAN, NEW fl, AllSane(fl, admin),
           \A f \in Flow : fl[f].step # "idle" => ~fl[f].auth
    PROVE  AllSane(Older(fl), admin)
<1> DEFINE new == Older(fl)
<1>1. ASSUME NEW f \in Flow PROVE Sane(new[f], admin)
  <2>1. fl[f] \in Request /\ Sane(fl[f], admin)
    BY DEF AllSane
  <2> DEFINE b == fl[f].before \/ f \in At(fl, {"data"})
  <2>2. new[f] = [fl[f] EXCEPT !.before = b]
    BY DEF Older
  <2>3. b \in BOOLEAN /\ (b => fl[f].before \/ fl[f].step = "data")
    BY DEF At
  <2> HIDE DEF b, new
  <2>4. /\ new[f] \in Request /\ new[f].auth = fl[f].auth
        /\ new[f].step = fl[f].step /\ new[f].node = fl[f].node
        /\ new[f].latest = fl[f].latest /\ new[f].before = b
    BY <2>1, <2>2, <2>3 DEF Request
  <2> QED  BY <2>1, <2>3, <2>4 DEF Sane
<1>2. new \in [Flow -> Request]
  <2>1. new = [f \in Flow |-> new[f]]
    BY DEF Older
  <2> HIDE DEF new
  <2> QED  BY <1>1, <2>1 DEF Sane
<1> HIDE DEF new
<1>3. AllSane(new, admin)
  BY <1>1, <1>2 DEF AllSane
<1> QED  BY <1>3 DEF new

\* After an acknowledged change the new refresh outdates what is called old.
LEMMA OlderRefreshSane ==
    ASSUME NEW admin \in BOOLEAN, NEW fl, AllSane(fl, admin)
    PROVE  AllSane(NewRefresh(Older(fl)), admin)
<1> DEFINE old == Older(fl)
           new == NewRefresh(old)
<1>1. ASSUME NEW f \in Flow PROVE Sane(new[f], admin)
  <2>1. fl[f] \in Request /\ Sane(fl[f], admin)
    BY DEF AllSane
  <2> DEFINE b == fl[f].before \/ f \in At(fl, {"data"})
             l == old[f].latest /\ f \notin At(old, {"session", "data"})
  <2>2. old[f] = [fl[f] EXCEPT !.before = b]
    BY DEF Older
  <2>3. b \in BOOLEAN /\ (b => fl[f].before \/ fl[f].step = "data")
    BY DEF At
  <2>4. new[f] = [old[f] EXCEPT !.latest = l]
    BY DEF NewRefresh
  <2>5. /\ l \in BOOLEAN /\ (l => old[f].latest)
        /\ l => old[f].step # "data"
    BY DEF At
  <2> HIDE DEF b, l, old, new
  <2>6. /\ old[f] \in Request /\ old[f].auth = fl[f].auth
        /\ old[f].step = fl[f].step /\ old[f].node = fl[f].node
        /\ old[f].latest = fl[f].latest /\ old[f].before = b
    BY <2>1, <2>2, <2>3 DEF Request
  <2>7. /\ new[f] \in Request /\ new[f].auth = old[f].auth
        /\ new[f].step = old[f].step /\ new[f].node = old[f].node
        /\ new[f].latest = l /\ new[f].before = old[f].before
    BY <2>4, <2>5, <2>6 DEF Request
  <2> QED  BY <2>1, <2>3, <2>5, <2>6, <2>7 DEF Sane
<1>2. new \in [Flow -> Request]
  <2>1. new = [f \in Flow |-> new[f]]
    BY DEF NewRefresh
  <2> HIDE DEF new
  <2> QED  BY <1>1, <2>1 DEF Sane
<1> HIDE DEF new
<1>3. AllSane(new, admin)
  BY <1>1, <1>2 DEF AllSane
<1> QED  BY <1>3 DEF new

LEMMA OutdatedSane ==
    ASSUME NEW admin \in BOOLEAN, NEW fl, AllSane(fl, admin),
           NEW b \in BOOLEAN
    PROVE  /\ AllSane(Outdated(fl), b)
           /\ \A f \in Flow : Outdated(fl)[f].step # "idle" =>
                    ~Outdated(fl)[f].auth
<1> DEFINE new == NewAuth(fl)
<1>1. /\ AllSane(new, b)
      /\ \A f \in Flow : new[f].step # "idle" => ~new[f].auth
  BY NewAuthSane
<1> HIDE DEF new
<1>2. /\ AllSane(NewHistory(new), b)
      /\ \A f \in Flow : NewHistory(new)[f].step # "idle" =>
              ~NewHistory(new)[f].auth
  BY <1>1, NewHistorySane
<1> QED  BY <1>2 DEF Outdated, new

LEMMA StartRefreshSane ==
    ASSUME NEW admin \in BOOLEAN, NEW fl, AllSane(fl, admin), NEW f \in Flow
    PROVE  AllSane(StartRefresh(fl, f), admin)
<1>1. AllSane(NewRefresh(fl), admin)
  BY NewRefreshSane
<1>2. Sane(Ask("session", None), admin)
  BY AskSane DEF Steps, Privileged
<1> QED  BY <1>1, <1>2, PutSane DEF StartRefresh

LEMMA StartHistorySane ==
    ASSUME NEW admin \in BOOLEAN, NEW fl, AllSane(fl, admin), NEW f \in Flow,
           NEW selected \in Node \cup {None}
    PROVE  AllSane(StartHistory(fl, f, selected), admin)
<1> DEFINE q == IF selected = None THEN Idle ELSE Ask("history", selected)
<1>1. AllSane(NewHistory(fl), admin)
  BY NewHistorySane
<1>2. Sane(q, admin)
  <2>1. CASE selected = None
    BY <2>1, IdleSane
  <2>2. CASE selected # None
    <3>1. Sane(Ask("history", selected), admin)
      BY <2>2, AskSane DEF Steps, Privileged
    <3> QED  BY <2>2, <3>1
  <2> QED  BY <2>1, <2>2
<1> HIDE DEF q
<1>3. AllSane([NewHistory(fl) EXCEPT ![f] = q], admin)
  BY <1>1, <1>2, PutSane
<1> QED  BY <1>3 DEF StartHistory, q

\* An answer changes nothing of what a request relies on.
LEMMA AnswerSane ==
    ASSUME NEW admin \in BOOLEAN, AllSane(flows, admin), NEW f \in Flow,
           NEW status \in Status, NEW got \in Body, Answer(f, status, got)
    PROVE  AllSane(flows', admin)
<1>1. flows[f] \in Request /\ Sane(flows[f], admin)
      /\ flows \in [Flow -> Request]
  BY DEF AllSane
<1> DEFINE q == [flows[f] EXCEPT !.status = status, !.got = got,
                                 !.cookie = TRUE]
<1>2. flows' = [flows EXCEPT ![f] = q]
  BY <1>1 DEF Answer
<1>3. /\ q \in Request /\ q.auth = flows[f].auth
      /\ q.step = flows[f].step /\ q.node = flows[f].node
      /\ q.latest = flows[f].latest /\ q.before = flows[f].before
  BY <1>1 DEF Request
<1> HIDE DEF q
<1>4. Sane(q, admin)
  BY <1>1, <1>3 DEF Sane
<1> QED  BY <1>2, <1>4, PutSane

-----------------------------------------------------------------------------
(* The pages a step may come to.                                            *)

LEMMA BlankShown ==
    ASSUME NEW public \in BOOLEAN, NEW v \in View
    PROVE  Shown(Blank(public, v.form)) /\ Blank(public, v.form).admin = FALSE
  BY DEF Blank, Shown, View

LEMMA ListedShown ==
    ASSUME Shown(view), NEW nodes \in SUBSET Node
    PROVE  Shown(Listed(nodes)) /\ Listed(nodes).admin = view.admin
<1>1. CASE view.selected \in nodes \cup {None}
  BY <1>1 DEF Listed, Shown, View
<1>2. CASE view.selected \notin nodes \cup {None}
  BY <1>2 DEF Listed, Shown, View
<1> QED  BY <1>1, <1>2

LEMMA ChartedShown ==
    ASSUME Shown(view), NEW f \in Flow, flows[f].node \in Node
    PROVE  Shown(Charted(f)) /\ Charted(f).admin = view.admin
  BY DEF Charted, Shown, View

LEMMA InitIInv == Init => IInv
<1> SUFFICES ASSUME Init PROVE IInv
  OBVIOUS
<1>1. server \in Server
  BY DashboardAssumption DEF Init, Server
<1>2. Shown(view)
  BY DEF Init, Blank, Shown, View
<1>3. AllSane(flows, view.admin)
  <2>1. view.admin = FALSE /\ Sane(Idle, FALSE)
    BY IdleSane DEF Init, Blank
  <2> QED  BY <2>1 DEF Init, AllSane, Sane
<1>4. calm \in BOOLEAN /\ acts \in 0..MaxActs /\ elsewhere \in 0..MaxElsewhere
  <2>1. calm = FALSE /\ acts = 0 /\ elsewhere = 0
    BY DEF Init
  <2>2. MaxActs \in Nat /\ MaxElsewhere \in Nat
    BY DashboardAssumption
  <2>3. calm \in BOOLEAN
    BY <2>1
  <2>4. 0 \in 0..MaxActs /\ 0 \in 0..MaxElsewhere
    BY <2>2
  <2> QED  BY <2>1, <2>3, <2>4
<1> QED  BY <1>1, <1>2, <1>3, <1>4 DEF IInv

-----------------------------------------------------------------------------
(* The user.                                                                *)

LEMMA ActIInv ==
    ASSUME IInv, NEW fl, NEW step \in Steps, NEW node \in Node \cup {None},
           Act(fl, step, node), Shown(view'), AllSane(fl, view'.admin),
           step = "history" => node \in Node,
           step \in Privileged => view'.admin
    PROVE  IInv'
<1>1. /\ UNCHANGED <<server, calm, elsewhere>> /\ acts' \in 0..MaxActs
      /\ flows' = [fl EXCEPT !["action"] = Ask(step, node)]
  BY DashboardAssumption DEF Act, Clicked, IInv
<1>2. view'.admin \in BOOLEAN /\ "action" \in Flow
  BY DEF Shown, View, Flow
<1>3. Sane(Ask(step, node), view'.admin)
  BY <1>2, AskSane
<1>4. AllSane(flows', view'.admin)
  BY <1>1, <1>2, <1>3, PutSane
<1> QED  BY <1>1, <1>4 DEF IInv

LEMMA UserIInv == IInv /\ User => IInv'
<1> SUFFICES ASSUME IInv, User PROVE IInv'
  OBVIOUS
<1>1. /\ Shown(view) /\ view \in View /\ view.admin \in BOOLEAN
      /\ AllSane(flows, view.admin)
  BY DEF IInv, Shown, View
<1>2. CASE Login
  <2>1. AllSane(Older(NewAuth(flows)), view.admin)
    <3> DEFINE fl == NewAuth(flows)
    <3>1. /\ AllSane(fl, view.admin)
          /\ \A f \in Flow : fl[f].step # "idle" => ~fl[f].auth
      BY <1>1, NewAuthSane
    <3> HIDE DEF fl
    <3>2. AllSane(Older(fl), view.admin)
      BY <1>1, <3>1, OlderSane
    <3> QED  BY <3>2 DEF fl
  <2>2. Act(Older(NewAuth(flows)), "login", None) /\ view' = view
    BY <1>2 DEF Login
  <2> QED  BY <1>1, <2>1, <2>2, ActIInv DEF Steps, Privileged
<1>3. CASE Logout
  <2>1. view' = Blank(FALSE, view.form)
    BY <1>3 DEF Logout
  <2>2. Shown(view') /\ view'.admin = FALSE
    BY <1>1, <2>1, BlankShown
  <2>3. AllSane(Older(Outdated(flows)), FALSE)
    <3> DEFINE fl == Outdated(flows)
    <3>1. /\ AllSane(fl, FALSE)
          /\ \A f \in Flow : fl[f].step # "idle" => ~fl[f].auth
      BY <1>1, OutdatedSane
    <3> HIDE DEF fl
    <3>2. AllSane(Older(fl), FALSE)
      BY <3>1, OlderSane
    <3> QED  BY <3>2 DEF fl
  <2>4. Act(Older(Outdated(flows)), "logout", None)
    BY <1>3 DEF Logout
  <2> QED  BY <2>2, <2>3, <2>4, ActIInv DEF Steps, Privileged
<1>4. CASE ChangeHours
  <2>1. /\ Act(NewHistory(flows), "history", view.selected) /\ view' = view
        /\ view.selected \in Node
    BY <1>1, <1>4 DEF ChangeHours, View
  <2>2. AllSane(NewHistory(flows), view.admin)
    BY <1>1, NewHistorySane
  <2> QED  BY <1>1, <2>1, <2>2, ActIInv DEF Steps, Privileged
<1>5. CASE OpenSettings
  <2>1. /\ Act(flows, "settings", None)
        /\ view' = [view EXCEPT !.selected = None] /\ view.admin
    BY <1>5 DEF OpenSettings
  <2>2. Shown(view') /\ view'.admin = view.admin
    BY <1>1, <2>1 DEF Shown, View
  <2> QED  BY <1>1, <2>1, <2>2, ActIInv DEF Steps
<1>6. CASE Leave
  <2>1. /\ UNCHANGED <<server, flows, calm, elsewhere>>
        /\ acts' \in 0..MaxActs
        /\ \/ view' = [view EXCEPT !.selected = None]
           \/ view' = [view EXCEPT !.credential = FALSE]
    BY <1>6, DashboardAssumption DEF Leave, Clicked, IInv
  <2>2. Shown(view') /\ view'.admin = view.admin
    <3>1. CASE view' = [view EXCEPT !.selected = None]
      BY <1>1, <3>1 DEF Shown, View
    <3>2. CASE view' = [view EXCEPT !.credential = FALSE]
      BY <1>1, <3>2 DEF Shown, View
    <3> QED  BY <2>1, <3>1, <3>2
  <2> QED  BY <2>1, <2>2 DEF IInv
<1>7. ASSUME NEW n \in Node, OpenNode(n) PROVE IInv'
  <2>1. n \in view.nodes /\ None \notin Node
    BY <1>7, DashboardAssumption DEF OpenNode
  <2>2. CASE view.admin
    <3>1. /\ view' = [view EXCEPT !.selected = n, !.points = None]
          /\ Act(flows, "open", n)
      BY <1>7, <2>2 DEF OpenNode
    <3>2. Shown(view') /\ view'.admin = view.admin
      BY <1>1, <2>1, <3>1 DEF Shown, View
    <3> QED  BY <1>1, <2>2, <3>1, <3>2, ActIInv DEF Steps
  <2>3. CASE ~view.admin
    <3>1. /\ view' = [view EXCEPT !.selected = n, !.points = None,
                                  !.form = FormFor(n, view.config)]
          /\ Act(NewHistory(flows), "history", n)
      BY <1>7, <2>3 DEF OpenNode
    <3>2. FormFor(n, view.config) \in Node \cup {"global", "default"}
      BY DEF FormFor
    <3>3. Shown(view') /\ view'.admin = view.admin
      BY <1>1, <2>1, <3>1, <3>2 DEF Shown, View
    <3>4. AllSane(NewHistory(flows), view.admin)
      BY <1>1, NewHistorySane
    <3> QED  BY <1>1, <3>1, <3>3, <3>4, ActIInv DEF Steps, Privileged
  <2> QED  BY <2>2, <2>3
<1>8. ASSUME NEW step \in {"add", "remove", "rotate", "save", "put"},
             Change(step)
      PROVE  IInv'
  <2>1. /\ view.admin /\ view' = view
        /\ Act(flows, step, None) \/ Act(flows, step, view.selected)
    BY <1>8 DEF Change
  <2>2. step \in Steps /\ step # "history" /\ view.selected \in Node \cup {None}
    BY <1>1 DEF Steps, View
  <2> QED  BY <1>1, <2>1, <2>2, ActIInv
<1> QED  BY <1>2, <1>3, <1>4, <1>5, <1>6, <1>7, <1>8 DEF User

-----------------------------------------------------------------------------
(* The server.                                                              *)

LEMMA EffectType ==
    ASSUME server \in Server, NEW step, NEW node, NEW s \in Effect(step, node)
    PROVE  s \in Server
<1>1. CASE step = "add"
  BY <1>1 DEF Effect, Server
<1>2. CASE step = "remove"
  BY <1>2 DEF Effect, Server
<1>3. CASE step = "put"
  BY <1>3 DEF Effect, Server
<1>4. CASE step \notin {"add", "remove", "put"}
  BY <1>4 DEF Effect
<1> QED  BY <1>1, <1>2, <1>3, <1>4

LEMMA HandleIInv == ASSUME IInv, NEW f \in Flow, Handle(f) PROVE IInv'
<1>1. /\ Shown(view) /\ view \in View /\ view.admin \in BOOLEAN
      /\ AllSane(flows, view.admin) /\ server \in Server
  BY DEF IInv, Shown, View
<1>2. Unanswered \in Body
  BY DEF Unanswered, Body
<1>3. UNCHANGED <<view, calm, acts, elsewhere>>
  BY DEF Handle, HandleSession, HandleRead, HandleLogin, HandleLogout,
         HandleAdmin, bounds
<1>4. server' \in Server
  <2>1. CASE HandleLogout(f)
    BY <1>1, <2>1 DEF HandleLogout, Server
  <2>2. CASE HandleAdmin(f)
    <3>1. server' = server \/ server' \in Effect(flows[f].step, flows[f].node)
      BY <2>2 DEF HandleAdmin
    <3> QED  BY <1>1, <3>1, EffectType
  <2>3. CASE HandleSession(f) \/ HandleRead(f) \/ HandleLogin(f)
    BY <1>1, <2>3 DEF HandleSession, HandleRead, HandleLogin
  <2> QED  BY <2>1, <2>2, <2>3 DEF Handle
<1>5. \E status \in Status, got \in Body : Answer(f, status, got)
  <2>1. CASE HandleSession(f)
    <3>1. PICK admin \in Trusted(f) :
             Answer(f, "ok", [Unanswered EXCEPT !.admin = admin,
                                                !.public = server.public])
      BY <2>1 DEF HandleSession
    <3>2. admin \in BOOLEAN /\ server.public \in BOOLEAN
      BY <1>1 DEF Trusted, Server
    <3>3. [Unanswered EXCEPT !.admin = admin, !.public = server.public] \in Body
      BY <1>2, <3>2 DEF Body
    <3> QED  BY <3>1, <3>3 DEF Status
  <2>2. CASE HandleRead(f)
    <3>1. [Unanswered EXCEPT !.nodes = server.nodes] \in Body
      BY <1>1, <1>2 DEF Body, Server
    <3>2. \/ Answer(f, "denied", Unanswered)
          \/ Answer(f, "ok", [Unanswered EXCEPT !.nodes = server.nodes])
          \/ Answer(f, "ok", Unanswered) \/ Answer(f, "failed", Unanswered)
      BY <2>2 DEF HandleRead
    <3> QED  BY <1>2, <3>1, <3>2 DEF Status
  <2>3. CASE HandleLogin(f)
    BY <1>2, <2>3 DEF HandleLogin, Status
  <2>4. CASE HandleLogout(f)
    BY <1>2, <2>4 DEF HandleLogout, Status
  <2>5. CASE HandleAdmin(f)
    BY <1>2, <2>5 DEF HandleAdmin, Status
  <2> QED  BY <2>1, <2>2, <2>3, <2>4, <2>5 DEF Handle
<1>6. AllSane(flows', view.admin)
  BY <1>1, <1>5, AnswerSane
<1> QED  BY <1>1, <1>3, <1>4, <1>6 DEF IInv

\* Changes this page did not ask for, and the end of all disturbances.
LEMMA ElsewhereIInv == IInv /\ (Elsewhere \/ CalmDown) => IInv'
<1> SUFFICES ASSUME IInv, Elsewhere \/ CalmDown PROVE IInv'
  OBVIOUS
<1>1. CASE CalmDown
  BY <1>1 DEF CalmDown, IInv
<1>2. CASE Elsewhere
  <2>1. UNCHANGED <<view, flows, calm, acts>> /\ elsewhere' \in 0..MaxElsewhere
    BY <1>2, DashboardAssumption DEF Elsewhere, IInv
  <2>2. server' \in Server
    <3>1. server \in Server
      BY DEF IInv
    <3>2. \/ server' = [server EXCEPT !.valid = FALSE]
          \/ server' \in Effect("add", None) \/ server' \in Effect("put", None)
          \/ \E n \in server.nodes : server' \in Effect("remove", n)
      BY <1>2 DEF Elsewhere
    <3>3. CASE server' = [server EXCEPT !.valid = FALSE]
      BY <3>1, <3>3 DEF Server
    <3> QED  BY <3>1, <3>2, <3>3, EffectType
  <2> QED  BY <2>1, <2>2 DEF IInv
<1> QED  BY <1>1, <1>2

-----------------------------------------------------------------------------
(* Answers reach the page.                                                  *)

\* Steps that only end a flow, or start a refresh in it.
LEMMA FlowIInv ==
    ASSUME IInv, UNCHANGED <<server, view, bounds>>,
           AllSane(flows', view.admin)
    PROVE  IInv'
  BY DEF IInv, bounds

\* Steps that change the page and the flows.
LEMMA PageIInv ==
    ASSUME IInv, UNCHANGED <<server, bounds>>, Shown(view'),
           AllSane(flows', view'.admin)
    PROVE  IInv'
  BY DEF IInv, bounds

LEMMA EndIInv ==
    ASSUME IInv, NEW f \in Flow,
           Stale(f) \/ Denied(f) \/ Failed(f) \/ Superseded(f)
    PROVE  IInv'
<1>1. /\ Shown(view) /\ view \in View /\ view.admin \in BOOLEAN
      /\ AllSane(flows, view.admin)
  BY DEF IInv, Shown, View
<1>2. CASE Stale(f) \/ Failed(f) \/ Superseded(f)
  <2>1. UNCHANGED <<server, view, bounds>> /\ flows' = Ended(flows, f)
    BY <1>2 DEF Stale, Failed, Superseded
  <2>2. AllSane(flows', view.admin)
    BY <1>1, <2>1, EndedSane
  <2> QED  BY <2>1, <2>2, FlowIInv
<1>3. CASE Denied(f)
  <2>1. /\ UNCHANGED <<server, bounds>> /\ view' = Blank(FALSE, view.form)
        /\ flows' = Ended(Outdated(flows), f)
    BY <1>3 DEF Denied
  <2>2. Shown(view') /\ view'.admin = FALSE
    BY <1>1, <2>1, BlankShown
  <2>3. AllSane(Outdated(flows), FALSE)
    BY <1>1, OutdatedSane
  <2>4. AllSane(flows', FALSE)
    BY <2>1, <2>3, EndedSane
  <2> QED  BY <2>1, <2>2, <2>4, PageIInv
<1> QED  BY <1>2, <1>3

\* An administrator who is one no longer loses the page and every answer that
\* is under way; anyone else keeps both.
LEMMA SessionReadIInv ==
    ASSUME IInv, NEW f \in Flow, SessionRead(f) PROVE IInv'
<1> DEFINE got == flows[f].got
           down == Downgraded(got)
           seen == [down EXCEPT !.admin = got.admin, !.public = got.public]
           fl == DowngradedFlows(got)
<1>1. /\ Shown(view) /\ view \in View /\ view.admin \in BOOLEAN
      /\ AllSane(flows, view.admin)
  BY DEF IInv, Shown, View
<1>2. got \in Body /\ got.admin \in BOOLEAN /\ got.public \in BOOLEAN
  <2>1. flows[f] \in Request
    BY <1>1 DEF AllSane
  <2> QED  BY <2>1 DEF Request, Body
<1>3. /\ UNCHANGED <<server, bounds>>
      /\ \/ /\ got.admin \/ got.public
            /\ view' = seen /\ flows' = [fl EXCEPT ![f] = Ask("data", None)]
         \/ /\ ~(got.admin \/ got.public)
            /\ view' = Closed(seen) /\ flows' = Ended(fl, f)
  BY DEF SessionRead
<1> HIDE DEF got
<1>4. /\ Shown(down) /\ down \in View
      /\ down.admin => got.admin
      /\ ~got.admin => ~down.config /\ ~down.credential
  <2>1. CASE view.admin /\ ~got.admin
    <3>1. down = Blank(got.public, view.form)
      BY <2>1 DEF Downgraded
    <3> QED  BY <3>1, <2>1, <1>1, <1>2, BlankShown DEF Shown, Blank
  <2>2. CASE ~(view.admin /\ ~got.admin)
    <3>1. down = view
      BY <2>2 DEF Downgraded
    <3> QED  BY <3>1, <2>2, <1>1 DEF Shown
  <2> QED  BY <2>1, <2>2
<1>5. AllSane(fl, got.admin)
  <2>1. CASE view.admin /\ ~got.admin
    <3>1. fl = Outdated(flows)
      BY <2>1 DEF DowngradedFlows
    <3> QED  BY <3>1, <1>1, <1>2, OutdatedSane
  <2>2. CASE ~(view.admin /\ ~got.admin)
    <3>1. fl = flows
      BY <2>2 DEF DowngradedFlows
    <3>2. view.admin => got.admin
      BY <2>2
    <3> QED  BY <3>1, <3>2, <1>1 DEF AllSane, Sane
  <2> QED  BY <2>1, <2>2
<1> HIDE DEF down, fl
<1>6. /\ Shown(seen) /\ seen \in View /\ seen.admin = got.admin
      /\ ~got.admin => ~seen.config /\ ~seen.credential
  <2>1. /\ seen \in View /\ seen.admin = got.admin /\ seen.config = down.config
        /\ seen.credential = down.credential /\ seen.nodes = down.nodes
        /\ seen.selected = down.selected /\ seen.points = down.points
    BY <1>2, <1>4 DEF View
  <2> HIDE DEF seen
  <2> QED  BY <2>1, <1>4 DEF Shown
<1> HIDE DEF seen
<1>7. Shown(Closed(seen)) /\ Closed(seen).admin = got.admin
  <2> DEFINE v == Closed(seen)
  <2>1. /\ v \in View /\ v.admin = got.admin /\ v.config = FALSE
        /\ v.credential = seen.credential /\ v.selected = None
    BY <1>6 DEF Closed, View
  <2> HIDE DEF v
  <2>2. Shown(v)
    BY <2>1, <1>6 DEF Shown
  <2> QED  BY <2>1, <2>2 DEF v
<1>8. AllSane([fl EXCEPT ![f] = Ask("data", None)], got.admin)
  <2>1. Sane(Ask("data", None), got.admin)
    BY <1>2, AskSane DEF Steps, Privileged
  <2> QED  BY <2>1, <1>2, <1>5, PutSane
<1>9. AllSane(Ended(fl, f), got.admin)
  BY <1>2, <1>5, EndedSane
<1> QED  BY <1>3, <1>6, <1>7, <1>8, <1>9, PageIInv

LEMMA DataReadIInv == ASSUME IInv, NEW f \in Flow, DataRead(f) PROVE IInv'
<1>1. /\ Shown(view) /\ view.admin \in BOOLEAN /\ AllSane(flows, view.admin)
  BY DEF IInv, Shown, View
<1>2. /\ UNCHANGED <<server, bounds>> /\ view' = Listed(flows[f].got.nodes)
      /\ \/ flows' = Ended(flows, f) \/ flows' = Ended(NewHistory(flows), f)
         \/ flows' = StartHistory(flows, f, view'.selected)
  BY DEF DataRead
<1>3. flows[f].got.nodes \in SUBSET Node
  <2>1. flows[f] \in Request
    BY <1>1 DEF AllSane
  <2> QED  BY <2>1 DEF Request, Body
<1>4. Shown(view') /\ view'.admin = view.admin
  BY <1>1, <1>2, <1>3, ListedShown
<1>5. view'.selected \in Node \cup {None}
  BY <1>4 DEF Shown, View
<1>6. AllSane(NewHistory(flows), view.admin)
  BY <1>1, NewHistorySane
<1>7. AllSane(flows', view.admin)
  BY <1>1, <1>2, <1>5, <1>6, EndedSane, StartHistorySane
<1> QED  BY <1>2, <1>4, <1>7, PageIInv

LEMMA HistoryReadIInv ==
    ASSUME IInv, NEW f \in Flow, HistoryRead(f) PROVE IInv'
<1>1. /\ Shown(view) /\ view.admin \in BOOLEAN /\ AllSane(flows, view.admin)
  BY DEF IInv, Shown, View
<1>2. /\ UNCHANGED <<server, bounds>> /\ view' = Charted(f)
      /\ flows' = Ended(flows, f)
  BY DEF HistoryRead
<1>3. flows[f].node \in Node
  BY <1>1 DEF HistoryRead, Got, AllSane, Sane
<1>4. Shown(view') /\ view'.admin = view.admin
  BY <1>1, <1>2, <1>3, ChartedShown
<1>5. AllSane(flows', view.admin)
  BY <1>1, <1>2, EndedSane
<1> QED  BY <1>2, <1>4, <1>5, PageIInv

\* An answer an administrator's action waited for finds an administrator.
LEMMA GotPrivileged ==
    ASSUME IInv, NEW step \in Privileged, Got("action", step)
    PROVE  view.admin
<1>1. Sane(flows["action"], view.admin)
  BY DEF IInv, AllSane, Flow
<1> QED  BY <1>1 DEF Got, Current, Sane

LEMMA ArriveActionIInv == IInv /\ ArriveAction => IInv'
<1> SUFFICES ASSUME IInv, ArriveAction PROVE IInv'
  OBVIOUS
<1>1. /\ Shown(view) /\ view \in View /\ view.admin \in BOOLEAN
      /\ AllSane(flows, view.admin) /\ server \in Server
      /\ "action" \in Flow
  BY DEF IInv, Shown, View, Flow
<1>2. AllSane(StartRefresh(flows, "action"), view.admin)
  BY <1>1, StartRefreshSane
<1>3. AllSane(Ended(flows, "action"), view.admin)
  BY <1>1, EndedSane
<1>4. CASE LoggedIn
  <2> DEFINE sent == [f \in Flow |-> [flows[f] EXCEPT
                         !.cookie = @ /\ ~Waiting(f)]]
  <2>1. /\ UNCHANGED <<view, bounds>> /\ server' = [server EXCEPT !.valid = TRUE]
        /\ \/ flows' = StartRefresh(sent, "action")
           \/ flows' = Ended(sent, "action")
    BY <1>4 DEF LoggedIn
  <2>2. ASSUME NEW f \in Flow PROVE Sane(sent[f], view.admin)
    <3>1. flows[f] \in Request /\ Sane(flows[f], view.admin)
      BY <1>1 DEF AllSane
    <3> DEFINE c == flows[f].cookie /\ ~Waiting(f)
    <3>2. sent[f] = [flows[f] EXCEPT !.cookie = c] /\ c \in BOOLEAN
      OBVIOUS
    <3> HIDE DEF c, sent
    <3>3. /\ sent[f] \in Request /\ sent[f].auth = flows[f].auth
          /\ sent[f].step = flows[f].step /\ sent[f].node = flows[f].node
          /\ sent[f].latest = flows[f].latest
          /\ sent[f].before = flows[f].before
      BY <3>1, <3>2 DEF Request
    <3> QED  BY <3>1, <3>3 DEF Sane
  <2>3. sent \in [Flow -> Request]
    <3>1. sent = [f \in Flow |-> sent[f]]
      OBVIOUS
    <3> HIDE DEF sent
    <3> QED  BY <2>2, <3>1 DEF Sane
  <2> HIDE DEF sent
  <2>4. AllSane(sent, view.admin)
    BY <2>2, <2>3 DEF AllSane
  <2>5. AllSane(flows', view.admin)
    BY <1>1, <2>1, <2>4, StartRefreshSane, EndedSane
  <2>6. server' \in Server
    BY <1>1, <2>1 DEF Server
  <2> QED  BY <1>1, <2>1, <2>5, <2>6 DEF IInv, bounds
<1>5. CASE LoggedOut
  <2>1. /\ UNCHANGED <<server, bounds>>
        /\ view' = [view EXCEPT !.config = FALSE, !.credential = FALSE,
                                !.selected = None]
        /\ flows' = StartRefresh(flows, "action")
    BY <1>5 DEF LoggedOut
  <2>2. Shown(view') /\ view'.admin = view.admin
    BY <1>1, <2>1 DEF Shown, View
  <2> QED  BY <1>2, <2>1, <2>2, PageIInv
<1>6. CASE Opened
  <2> DEFINE form == FormFor(flows["action"].node, TRUE)
  <2>1. /\ UNCHANGED <<server, bounds>> /\ Got("action", "open")
        /\ view' = [view EXCEPT !.config = TRUE, !.form = form]
        /\ flows' = StartHistory(flows, "action", view.selected)
    BY <1>6 DEF Opened
  <2>2. view.admin
    BY <2>1, GotPrivileged DEF Privileged
  <2>3. form \in Node \cup {"global", "default"}
    BY DashboardAssumption DEF FormFor
  <2> HIDE DEF form
  <2>4. Shown(view') /\ view'.admin = view.admin
    BY <1>1, <2>1, <2>2, <2>3 DEF Shown, View
  <2>5. AllSane(flows', view.admin)
    <3>1. view.selected \in Node \cup {None}
      BY <1>1 DEF View
    <3> QED  BY <1>1, <2>1, <3>1, StartHistorySane
  <2> QED  BY <2>1, <2>4, <2>5, PageIInv
<1>7. CASE SettingsRead
  <2>1. /\ UNCHANGED <<server, bounds>>
        /\ Got("action", "settings") \/ Got("action", "reload")
        /\ view' = [view EXCEPT !.config = TRUE]
        /\ flows' = Ended(flows, "action")
    BY <1>7 DEF SettingsRead
  <2>2. view.admin
    BY <2>1, GotPrivileged DEF Privileged
  <2>3. Shown(view') /\ view'.admin = view.admin
    BY <1>1, <2>1, <2>2 DEF Shown, View
  <2> QED  BY <1>3, <2>1, <2>3, PageIInv
<1>8. CASE SettingsPut
  <2>1. /\ UNCHANGED <<server, view, bounds>> /\ Got("action", "put")
        /\ flows' = [flows EXCEPT !["action"] = Ask("reload", None)]
    BY <1>8 DEF SettingsPut
  <2>2. view.admin
    BY <2>1, GotPrivileged DEF Privileged
  <2>3. Sane(Ask("reload", None), view.admin)
    BY <1>1, <2>2, AskSane DEF Steps
  <2>4. AllSane(flows', view.admin)
    BY <1>1, <2>1, <2>3, PutSane
  <2> QED  BY <2>1, <2>4, FlowIInv
<1>9. CASE Rotated
  <2>1. /\ UNCHANGED <<server, bounds>> /\ Got("action", "rotate")
        /\ view' = [view EXCEPT !.credential = TRUE]
        /\ flows' = Ended(flows, "action")
    BY <1>9 DEF Rotated
  <2>2. view.admin
    BY <2>1, GotPrivileged DEF Privileged
  <2>3. Shown(view') /\ view'.admin = view.admin
    BY <1>1, <2>1, <2>2 DEF Shown, View
  <2> QED  BY <1>3, <2>1, <2>3, PageIInv
<1>10. CASE Changed
  <2>1. /\ UNCHANGED <<server, bounds>>
        /\ \/ /\ Got("action", "add")
              /\ view' = [view EXCEPT !.credential = TRUE]
           \/ view' = [view EXCEPT !.selected = None]
           \/ view' = view
        /\ flows' = StartRefresh(Older(flows), "action")
    BY <1>10 DEF Changed
  <2>2. Shown(view') /\ view'.admin = view.admin
    <3>1. CASE /\ Got("action", "add")
               /\ view' = [view EXCEPT !.credential = TRUE]
      <4>1. view.admin
        BY <3>1, GotPrivileged DEF Privileged
      <4> QED  BY <1>1, <3>1, <4>1 DEF Shown, View
    <3>2. CASE view' = [view EXCEPT !.selected = None]
      BY <1>1, <3>2 DEF Shown, View
    <3>3. CASE view' = view
      BY <1>1, <3>3
    <3> QED  BY <2>1, <3>1, <3>2, <3>3
  <2>3. AllSane(NewRefresh(Older(flows)), view.admin)
    BY <1>1, OlderRefreshSane
  <2>4. Sane(Ask("session", None), view.admin)
    BY <1>1, AskSane DEF Steps, Privileged
  <2>5. AllSane(flows', view.admin)
    <3> DEFINE fl == NewRefresh(Older(flows))
               q == Ask("session", None)
    <3>1. flows' = [fl EXCEPT !["action"] = q]
      BY <2>1 DEF StartRefresh
    <3> HIDE DEF fl, q
    <3>2. AllSane(fl, view.admin) /\ Sane(q, view.admin)
      BY <2>3, <2>4 DEF fl, q
    <3> QED  BY <1>1, <3>1, <3>2, PutSane
  <2> QED  BY <2>1, <2>2, <2>5, PageIInv
<1> QED
  BY <1>4, <1>5, <1>6, <1>7, <1>8, <1>9, <1>10 DEF ArriveAction

-----------------------------------------------------------------------------
LEMMA StepIInv == IInv /\ [Next]_vars => IInv'
<1> SUFFICES ASSUME IInv, [Next]_vars PROVE IInv'
  OBVIOUS
<1>1. CASE StartPoll
  <2>1. /\ UNCHANGED <<server, view, bounds>>
        /\ flows' = StartRefresh(flows, "poll")
    BY <1>1 DEF StartPoll
  <2>2. view.admin \in BOOLEAN /\ AllSane(flows, view.admin)
    BY DEF IInv, Shown, View
  <2>3. AllSane(flows', view.admin)
    BY <2>1, <2>2, StartRefreshSane DEF Flow
  <2> QED  BY <2>1, <2>3, FlowIInv
<1>2. ASSUME NEW f \in Flow, Handle(f) PROVE IInv'
  BY <1>2, HandleIInv
<1>3. ASSUME NEW f \in Flow, Arrive(f) PROVE IInv'
  BY <1>3, EndIInv, SessionReadIInv, DataReadIInv, HistoryReadIInv DEF Arrive
<1>4. CASE UNCHANGED vars
  BY <1>4 DEF vars, IInv, bounds
<1> QED
  BY <1>1, <1>2, <1>3, <1>4, UserIInv, ElsewhereIInv, ArriveActionIInv
  DEF Next

LEMMA Invariance == Spec => []IInv
  BY InitIInv, StepIInv, PTL DEF Spec

\* Every variable stays in its domain, and a history is only asked for a node
\* (StartHistory: history(id) of App.vue is never called without one).
THEOREM TypeCorrect == Spec => []TypeOK
<1>1. IInv => TypeOK
  BY DEF IInv, Shown, AllSane, Sane, TypeOK, Server, View, Request, Body, Status
<1> QED  BY <1>1, Invariance, PTL

\* Settings and credentials are on the page only while it takes its user for
\* an administrator: an answer that would bring them back is outdated by
\* whatever ended the access (clearAccess and api of App.vue).
THEOREM AdministratorsOnly == Spec => []AdminOnly
<1>1. IInv => AdminOnly
  BY DEF IInv, Shown, AdminOnly
<1> QED  BY <1>1, Invariance, PTL

\* The chart of an open node never shows another one (loadHistory of App.vue).
THEOREM ChartIsOfSelected == Spec => []ChartOfSelected
<1>1. IInv => ChartOfSelected
  BY DEF IInv, Shown, ChartOfSelected
<1> QED  BY <1>1, Invariance, PTL

\* An open node is one of those listed (refresh and clearAccess of App.vue).
THEOREM SelectedStaysListed == Spec => []SelectedIsListed
<1>1. IInv => SelectedIsListed
  BY DEF IInv, Shown, SelectedIsListed
<1> QED  BY <1>1, Invariance, PTL

\* No list of nodes asked for before a login, a logout or an acknowledged
\* change is ever shown (the version counters of App.vue).
THEOREM NothingOldIsShown == Spec => NothingFromBefore
<1>1. ASSUME IInv, NEW f \in Flow, DataRead(f) PROVE ~flows[f].before
  <2>1. flows[f].latest /\ flows[f].auth
    BY <1>1 DEF DataRead, Got, Current
  <2> QED  BY <2>1, <1>1 DEF IInv, AllSane, Sane
<1>2. IInv /\ [Next]_vars =>
          [\A f \in Flow : DataRead(f) => ~flows[f].before]_vars
  BY <1>1
<1> QED  BY <1>2, Invariance, PTL DEF Spec, NothingFromBefore
==============================================================================
