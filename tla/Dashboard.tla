------------------------------ MODULE Dashboard ------------------------------
(***************************************************************************)
(* The dashboard (web/src/App.vue): what a page shows while its poll and    *)
(* the user's actions ask the server, whose answers come late, in another   *)
(* order, or not at all.                                                    *)
(*                                                                         *)
(* Two flows of asynchronous code run at a time, poll and the one action    *)
(* that busy admits; each waits for one request at most. The two requests   *)
(* of a refresh, for nodes and alerts, are taken as one. The version        *)
(* counters are kept as flags of the requests they invalidate: auth, latest *)
(* and wanted say that authVersion, refreshVersion and historyVersion are   *)
(* still what they were. Other administrators, expiry, and requests that    *)
(* reach the server after the page gave them up, change it at any time.     *)
(***************************************************************************)
EXTENDS Naturals

CONSTANTS
    Node, None,
    Overridden,     \* the nodes with rules of their own
    StartNodes,     \* the sets of nodes the server may start with
    MaxActs,        \* bound: what the user does
    MaxElsewhere    \* bound: changes this page did not ask for

ASSUME DashboardAssumption ==
    /\ None \notin Node /\ Overridden \subseteq Node
    /\ StartNodes \subseteq SUBSET Node
    /\ MaxActs \in Nat /\ MaxElsewhere \in Nat

VARIABLES
    server,     \* the page's cookie is accepted, the panel is public, nodes
    view,       \* what the page holds and shows
    flows,      \* poll and action: the request each waits for
    calm,       \* nobody acts any more and the network is sound
    acts, elsewhere     \* bound counters

vars == <<server, view, flows, calm, acts, elsewhere>>
bounds == <<calm, acts, elsewhere>>

Flow == {"poll", "action"}
Steps == {"session", "data", "history", "login", "logout", "open", "settings",
          "add", "remove", "rotate", "save", "put", "reload"}

Unanswered == [admin |-> FALSE, public |-> FALSE, nodes |-> {}]

\* api. cookie: sent with the cookie in force. before: history, asks
\* for nodes since before a login, a logout or an acknowledged change.
Ask(step, node) ==
    [step |-> step, node |-> node, status |-> "sent", got |-> Unanswered,
     auth |-> TRUE, latest |-> TRUE, wanted |-> TRUE,
     cookie |-> TRUE, before |-> FALSE]

Idle == Ask("idle", None)

Waiting(f) == flows[f].step # "idle" /\ flows[f].status = "sent"

\* A page that shows nothing; what the form holds stays.
Blank(public, form) ==
    [admin |-> FALSE, public |-> public, nodes |-> {}, selected |-> None,
     points |-> None, config |-> FALSE, credential |-> FALSE, form |-> form]

Init ==
    /\ server \in [valid : BOOLEAN, public : BOOLEAN, nodes : StartNodes]
    /\ view = Blank(FALSE, "default")
    /\ flows = [f \in Flow |-> Idle]
    /\ calm = FALSE /\ acts = 0 /\ elsewhere = 0

-----------------------------------------------------------------------------
(* Versions. A flag of a flow that waits for nothing is never looked at. *)

At(fl, steps) == {f \in Flow : fl[f].step \in steps}

NewAuth(fl) ==
    [f \in Flow |-> [fl[f] EXCEPT !.auth = @ /\ f \notin At(fl, Steps)]]
NewHistory(fl) ==
    [f \in Flow |-> [fl[f] EXCEPT !.wanted = @ /\ f \notin At(fl, {"history"})]]

\* Seeded fault: refresh does not count its calls.
NewRefreshUncounted(fl) == fl

NewRefresh(fl) ==
    [f \in Flow |-> [fl[f] EXCEPT
        !.latest = @ /\ f \notin At(fl, {"session", "data"})]]
Older(fl) ==
    [f \in Flow |-> [fl[f] EXCEPT !.before = @ \/ f \in At(fl, {"data"})]]

\* clearAccess outdates everything under way.
Outdated(fl) == NewHistory(NewAuth(fl))

Ended(fl, f) == [fl EXCEPT ![f] = Idle]

StartRefresh(fl, f) == [NewRefresh(fl) EXCEPT ![f] = Ask("session", None)]

\* Seeded fault: the history of no node is asked for.
StartHistoryOfAny(fl, f, selected) ==
    [NewHistory(fl) EXCEPT ![f] = Ask("history", selected)]

StartHistory(fl, f, selected) ==
    [NewHistory(fl) EXCEPT ![f] =
        IF selected = None THEN Idle ELSE Ask("history", selected)]

-----------------------------------------------------------------------------
(* The user. An action waits until busy is over. *)

Clicked == ~calm /\ acts < MaxActs /\ acts' = acts + 1

Act(fl, step, node) ==
    /\ Clicked /\ flows["action"].step = "idle"
    /\ flows' = [fl EXCEPT !["action"] = Ask(step, node)]
    /\ UNCHANGED <<server, calm, elsewhere>>

Login ==
    /\ ~view.admin
    /\ Act(Older(NewAuth(flows)), "login", None)
    /\ UNCHANGED view

Logout ==
    /\ view.admin
    /\ view' = Blank(FALSE, view.form)
    /\ Act(Older(Outdated(flows)), "logout", None)

\* The rules the form starts with: the node's, the saved ones, the defaults.
FormFor(n, config) ==
    IF n \in Overridden THEN n ELSE IF config THEN "global" ELSE "default"

OpenNode(n) ==
    LET opened == [view EXCEPT !.selected = n, !.points = None] IN
    /\ view.selected = None /\ n \in view.nodes
    /\ IF view.admin
       THEN view' = opened /\ Act(flows, "open", n)
       ELSE /\ view' = [opened EXCEPT !.form = FormFor(n, view.config)]
            /\ Act(NewHistory(flows), "history", n)

ChangeHours ==
    /\ view.selected # None
    /\ Act(NewHistory(flows), "history", view.selected)
    /\ UNCHANGED view

OpenSettings ==
    /\ view.admin
    /\ view' = [view EXCEPT !.selected = None]
    /\ Act(flows, "settings", None)

\* add, saveSettings and schedule; remove, rotate and saveNode.
Change(step) ==
    /\ view.admin
    /\ \/ step = "add" /\ Act(flows, step, None)
       \/ step = "put" /\ view.config /\ Act(flows, step, None)
       \/ /\ step \in {"remove", "rotate", "save"} /\ view.selected # None
          /\ Act(flows, step, view.selected)
    /\ UNCHANGED view

\* The links to the overview and the closing of a dialog are not actions.
Leave ==
    /\ Clicked
    /\ \/ view.selected # None /\ view' = [view EXCEPT !.selected = None]
       \/ view.credential /\ view' = [view EXCEPT !.credential = FALSE]
    /\ UNCHANGED <<server, flows, calm, elsewhere>>

-----------------------------------------------------------------------------
(* The server *)

Answer(f, status, got) ==
    flows' = [flows EXCEPT ![f].status = status, ![f].got = got,
                           ![f].cookie = TRUE]

\* A request with an older cookie belongs to a session that may still count.
Trusted(f) == IF flows[f].cookie THEN {server.valid} ELSE BOOLEAN

\* The changes an authorised request makes; none if its node is gone.
Effect(step, node) ==
    CASE step = "add" ->
            {[server EXCEPT !.nodes = @ \cup {n}] : n \in Node \ server.nodes}
      [] step = "remove" -> {[server EXCEPT !.nodes = @ \ {node}]}
      [] step = "put" -> {[server EXCEPT !.public = b] : b \in BOOLEAN}
      [] OTHER -> {server}

HandleSession(f) == \E admin \in Trusted(f) :
    /\ flows[f].step = "session"
    /\ Answer(f, "ok", [Unanswered EXCEPT !.admin = admin, !.public = server.public])
    /\ UNCHANGED <<server, view, bounds>>

HandleRead(f) == \E admin \in Trusted(f) :
    /\ flows[f].step \in {"data", "history"}
    /\ IF ~admin /\ ~server.public THEN Answer(f, "denied", Unanswered)
       ELSE IF flows[f].step = "data"
       THEN Answer(f, "ok", [Unanswered EXCEPT !.nodes = server.nodes])
       ELSE Answer(f, IF flows[f].node \in server.nodes THEN "ok" ELSE "failed",
                   Unanswered)
    /\ UNCHANGED <<server, view, bounds>>

HandleLogin(f) ==
    /\ flows[f].step = "login"
    /\ \E status \in {"ok", "denied"} : Answer(f, status, Unanswered)
    /\ UNCHANGED <<server, view, bounds>>

HandleLogout(f) ==
    /\ flows[f].step = "logout"
    /\ Answer(f, "ok", Unanswered)
    /\ server' = [server EXCEPT !.valid = FALSE]
    /\ UNCHANGED <<view, bounds>>

HandleAdmin(f) ==
    /\ flows[f].step \in {"open", "settings", "reload", "add", "remove",
                          "rotate", "save", "put"}
    /\ \E admin \in Trusted(f) :
        IF ~admin THEN Answer(f, "denied", Unanswered) /\ UNCHANGED server
        ELSE IF flows[f].step \in {"remove", "rotate", "save"}
                /\ flows[f].node \notin server.nodes
        THEN Answer(f, "failed", Unanswered) /\ UNCHANGED server
        ELSE /\ Answer(f, "ok", Unanswered)
             /\ server' \in Effect(flows[f].step, flows[f].node)
    /\ UNCHANGED <<view, bounds>>

Handle(f) ==
    /\ Waiting(f)
    /\ \/ HandleSession(f) \/ HandleRead(f)
       \/ HandleLogin(f) \/ HandleLogout(f) \/ HandleAdmin(f)

\* Expiry or a restart of the server, another administrator.
Elsewhere ==
    /\ ~calm /\ elsewhere < MaxElsewhere /\ elsewhere' = elsewhere + 1
    /\ \/ server' = [server EXCEPT !.valid = FALSE]
       \/ server' \in Effect("add", None) \cup Effect("put", None)
       \/ \E n \in server.nodes : server' \in Effect("remove", n)
    /\ UNCHANGED <<view, flows, calm, acts>>

-----------------------------------------------------------------------------
(* Answers reach the page *)

\* The answer is taken for what it is: api checks authVersion first.
Current(f) == flows[f].auth
Got(f, step) == flows[f].step = step /\ flows[f].status = "ok" /\ Current(f)

\* StaleRequest: given up without a trace.
Stale(f) ==
    /\ flows[f].status # "sent" /\ flows[f].step # "login" /\ ~Current(f)
    /\ flows' = Ended(flows, f)
    /\ UNCHANGED <<server, view, bounds>>

\* 401 ends the access; the login form only says so.
Denied(f) ==
    /\ flows[f].status = "denied" /\ flows[f].step # "login" /\ Current(f)
    /\ view' = Blank(FALSE, view.form)
    /\ flows' = Ended(Outdated(flows), f)
    /\ UNCHANGED <<server, bounds>>

\* Another error, or no answer in ten seconds: an error is shown.
Failed(f) ==
    /\ flows[f].step # "idle"
    /\ \/ flows[f].status = "failed" /\ Current(f)
       \/ flows[f].status = "denied" /\ flows[f].step = "login"
       \/ ~calm
    /\ flows' = Ended(flows, f)
    /\ UNCHANGED <<server, view, bounds>>

StartPoll ==
    /\ flows["poll"].step = "idle"
    /\ flows' = StartRefresh(flows, "poll")
    /\ UNCHANGED <<server, view, bounds>>

\* The answer sets the cookie, even if a 401 to another request came first.
LoggedIn ==
    LET sent == [f \in Flow |-> [flows[f] EXCEPT
                    !.cookie = @ /\ ~Waiting(f)]] IN
    /\ flows["action"].step = "login" /\ flows["action"].status = "ok"
    /\ server' = [server EXCEPT !.valid = TRUE]
    /\ flows' = IF Current("action") THEN StartRefresh(sent, "action")
                ELSE Ended(sent, "action")
    /\ UNCHANGED <<view, bounds>>

LoggedOut ==
    /\ Got("action", "logout")
    /\ view' = [view EXCEPT !.config = FALSE, !.credential = FALSE,
                            !.selected = None]
    /\ flows' = StartRefresh(flows, "action")
    /\ UNCHANGED <<server, bounds>>

Opened ==
    /\ Got("action", "open")
    /\ view' = [view EXCEPT !.config = TRUE,
                            !.form = FormFor(flows["action"].node, TRUE)]
    /\ flows' = StartHistory(flows, "action", view.selected)
    /\ UNCHANGED <<server, bounds>>

SettingsRead ==
    /\ Got("action", "settings") \/ Got("action", "reload")
    /\ view' = [view EXCEPT !.config = TRUE]
    /\ flows' = Ended(flows, "action")
    /\ UNCHANGED <<server, bounds>>

SettingsPut ==
    /\ Got("action", "put")
    /\ flows' = [flows EXCEPT !["action"] = Ask("reload", None)]
    /\ UNCHANGED <<server, view, bounds>>

Rotated ==
    /\ Got("action", "rotate")
    /\ view' = [view EXCEPT !.credential = TRUE]
    /\ flows' = Ended(flows, "action")
    /\ UNCHANGED <<server, bounds>>

\* add, remove and saveNode end in a refresh.
Changed ==
    /\ \/ Got("action", "add") /\ view' = [view EXCEPT !.credential = TRUE]
       \/ Got("action", "remove") /\ view' = [view EXCEPT !.selected = None]
       \/ Got("action", "save") /\ view' = view
    /\ flows' = StartRefresh(Older(flows), "action")
    /\ UNCHANGED <<server, bounds>>

-----------------------------------------------------------------------------
(* refresh and history, in either flow *)

Superseded(f) ==
    /\ Got(f, "session") \/ Got(f, "data")
    /\ ~flows[f].latest
    /\ flows' = Ended(flows, f)
    /\ UNCHANGED <<server, view, bounds>>

\* Seeded fault: refresh only takes over the new session.
DowngradedQuietly(got) == view

\* An administrator who is one no longer: refresh clears the access first.
Downgraded(got) ==
    IF view.admin /\ ~got.admin THEN Blank(got.public, view.form) ELSE view
DowngradedFlows(got) ==
    IF view.admin /\ ~got.admin THEN Outdated(flows) ELSE flows

\* Seeded fault: nodes stay when the panel becomes private.
ClosedOpenly(v) == v

\* A panel that is neither public nor administered shows nothing.
Closed(v) == [v EXCEPT !.nodes = {}, !.points = None, !.selected = None,
                       !.config = FALSE]

SessionRead(f) ==
    LET got == flows[f].got
        seen == [Downgraded(got) EXCEPT !.admin = got.admin, !.public = got.public]
    IN
    /\ Got(f, "session") /\ flows[f].latest
    /\ IF got.admin \/ got.public
       THEN /\ view' = seen
            /\ flows' = [DowngradedFlows(got) EXCEPT ![f] = Ask("data", None)]
       ELSE /\ view' = Closed(seen)
            /\ flows' = Ended(DowngradedFlows(got), f)
    /\ UNCHANGED <<server, bounds>>

\* Seeded fault: a selected node that is gone stays selected.
ListedOnly(nodes) == [view EXCEPT !.nodes = nodes]

\* A selected node that is no longer listed is closed.
Listed(nodes) ==
    IF view.selected \in nodes \cup {None} THEN [view EXCEPT !.nodes = nodes]
    ELSE [view EXCEPT !.nodes = nodes, !.selected = None, !.points = None]

DataRead(f) ==
    /\ Got(f, "data") /\ flows[f].latest
    /\ view' = Listed(flows[f].got.nodes)
    /\ flows' = IF view'.selected = None
                THEN Ended(IF view.selected = None THEN flows
                           ELSE NewHistory(flows), f)
                ELSE StartHistory(flows, f, view'.selected)
    /\ UNCHANGED <<server, bounds>>

\* Seeded fault: history compares its version only.
ChartedAny(f) ==
    IF flows[f].wanted THEN [view EXCEPT !.points = flows[f].node] ELSE view

\* The chart takes the answer if it is still about the selected node.
Charted(f) ==
    IF flows[f].wanted /\ flows[f].node = view.selected
    THEN [view EXCEPT !.points = flows[f].node] ELSE view

HistoryRead(f) ==
    /\ Got(f, "history")
    /\ view' = Charted(f)
    /\ flows' = Ended(flows, f)
    /\ UNCHANGED <<server, bounds>>

\* From some moment on nobody acts and every request is answered in time.
CalmDown ==
    /\ ~calm /\ calm' = TRUE
    /\ UNCHANGED <<server, view, flows, acts, elsewhere>>

Arrive(f) ==
    \/ Stale(f) \/ Denied(f) \/ Failed(f)
    \/ Superseded(f) \/ SessionRead(f) \/ DataRead(f) \/ HistoryRead(f)

ArriveAction ==
    \/ LoggedIn \/ LoggedOut \/ Opened \/ SettingsRead \/ SettingsPut
    \/ Rotated \/ Changed

User ==
    \/ Login \/ Logout \/ ChangeHours \/ OpenSettings \/ Leave
    \/ \E n \in Node : OpenNode(n)
    \/ \E step \in {"add", "remove", "rotate", "save", "put"} : Change(step)

Next ==
    \/ User \/ Elsewhere \/ CalmDown
    \/ StartPoll
    \/ \E f \in Flow : Handle(f) \/ Arrive(f)
    \/ ArriveAction

\* The timer of poll fires; the server answers and the answer arrives, which
\* after CalmDown is the only way a request can end.
Fairness ==
    /\ WF_vars(StartPoll) /\ WF_vars(ArriveAction)
    /\ \A f \in Flow : WF_vars(Handle(f)) /\ WF_vars(Arrive(f))

Spec == Init /\ [][Next]_vars
FairSpec == Spec /\ Fairness

-----------------------------------------------------------------------------
\* Types; a history is only asked for a node.
TypeOK ==
    /\ server \in [valid : BOOLEAN, public : BOOLEAN, nodes : SUBSET Node]
    /\ view \in [admin : BOOLEAN, public : BOOLEAN, nodes : SUBSET Node,
                 selected : Node \cup {None}, points : Node \cup {None},
                 config : BOOLEAN, credential : BOOLEAN,
                 form : Node \cup {"global", "default"}]
    /\ flows \in [Flow -> [step : Steps \cup {"idle"},
            node : Node \cup {None}, status : {"sent", "ok", "denied", "failed"},
            got : [admin : BOOLEAN, public : BOOLEAN, nodes : SUBSET Node],
            auth : BOOLEAN, latest : BOOLEAN, wanted : BOOLEAN,
            cookie : BOOLEAN, before : BOOLEAN]]
    /\ \A f \in Flow : flows[f].step = "history" => flows[f].node \in Node
    /\ calm \in BOOLEAN /\ acts \in 0..MaxActs /\ elsewhere \in 0..MaxElsewhere

\* What only administrators may see is on the page only while the page takes
\* its user for one, whatever ended the access.
AdminOnly == view.config \/ view.credential => view.admin

\* The chart of an open node shows that node.
ChartOfSelected == view.selected # None => view.points \in {None, view.selected}

\* An open node is one of those listed: its part of the page is never empty.
SelectedIsListed == view.selected \in view.nodes \cup {None}

\* Nodes are never shown from a request that was sent before the user asked
\* to log in or out, or before the answer to the adding, removing or saving of
\* a node by this page arrived: a deleted node does not come back, data from
\* before a logout does not appear.
NothingFromBefore ==
    [][\A f \in Flow : DataRead(f) => ~flows[f].before]_vars

\* When nobody acts and answers arrive again, the page comes to agree with the
\* server, and stays so.
Agrees ==
    /\ view.admin = server.valid /\ view.public = server.public
    /\ view.nodes = IF server.valid \/ server.public THEN server.nodes ELSE {}
    /\ view.selected \in view.nodes \cup {None}
    /\ view.selected # None => view.points = view.selected

Converges == <>calm => <>[]Agrees

\* App.test.ts:92 "starts node overrides with the saved global rules": the
\* form of an open node that has no rules of its own starts with those.
OverridesStartSaved ==
    /\ view.admin /\ flows["action"].step = "idle"
    /\ view.selected \in Node \ Overridden
    => view.form = "global"
=============================================================================
