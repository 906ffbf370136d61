----------------------------- MODULE TeamPanel ------------------------------
(***************************************************************************)
(* The console /team of a session that leads a team, or none: what it      *)
(* shows, how keys move it about, and what it does to teams                *)
(* (teamPanel.ts, teamPanel/, commands/team.ts, commands/teamActions.ts),  *)
(* and how the session knows which team is its own                         *)
(* (state/sessionBinding.ts).                                              *)
(*                                                                         *)
(* The panel shows a copy of the teams, made when it was opened or last    *)
(* refreshed, while other sessions create, take over and delete teams.  A  *)
(* deed is confirmed in the panel's menu and, the panel being closed, in a *)
(* dialog; then the panel is opened anew.                                  *)
(*                                                                         *)
(* Rows of tasks, messages and panes are known by their number only.  What *)
(* a deed does to panes and to spawn calls is in Workers.                  *)
(***************************************************************************)
EXTENDS Integers, Sequences

CONSTANTS
  Teams,      \* names of teams
  Members,    \* names of teammates: a sequence, in alphabetical order
  MaxRows,    \* rows of tasks, messages, stale panes
  Window,     \* rows of a list that the screen has room for
  MaxElse,    \* what other sessions, hooks and time do
  MaxOpens,   \* how often the panel reads the teams
  None

SetOf(s) == {s[i] : i \in 1..Len(s)}

(* An entry of the menu: what it does, whether it is confirmed, to whom.   *)
MenuAct == [id : {"refresh", "sync", "toggle-details", "recover-team", "delete-team",
                  "cleanup-all", "remove-member"},
            danger : BOOLEAN, team : Teams \cup {None}, member : SetOf(Members) \cup {None}]

ASSUME WindowType == Window \in Nat \ {0}
ASSUME BoundsType == MaxRows \in Nat /\ MaxElse \in Nat /\ MaxOpens \in Nat
ASSUME MembersType == Members \in Seq(SetOf(Members))
ASSUME NoneType == None \notin Teams \cup SetOf(Members) \cup MenuAct

(* The sequence without what is not in S.                                  *)
Only(s, S) ==
  LET upTo[n \in 0..Len(s)] ==
        IF n = 0 THEN <<>>
        ELSE IF s[n] \in S THEN Append(upTo[n - 1], s[n])
        ELSE upTo[n - 1]
  IN  upTo[Len(s)]

VARIABLES
  teams,      \* the teams there are, newest first
  leads,      \* [Teams -> BOOLEAN]: the team names this session as its leader
  members,    \* [Teams -> SUBSET SetOf(Members)]
  file,       \* the session's context file: its team
  cache,      \* what was derived last, and whether that is less than 2 s ago
  at,         \* "idle", "panel", or "dialog"
  teamName,   \* the team the panel was opened for
  data,       \* PanelData
  panel,      \* TeamPanelState
  result,     \* the deed the dialog asks about
  aim,        \* history: what the screen named when the menu was opened
  elses, opens

world     == <<teams, leads, members>>
binding   == <<file, cache>>
screen    == <<teamName, data, panel, aim>>
panelVars == <<world, binding, at, screen, result, elses, opens>>

-----------------------------------------------------------------------------
(* The session's own team.                                                 *)

(* ensureAttachedSessionContext: the cache, else the file if the team it   *)
(* names has this session as its leader, else the newest team that has.    *)
EnsuredMutantTrustsFile(ts, ls, f, c) ==
  LET found(t) == [team |-> t, file |-> t, cache |-> [team |-> t, fresh |-> TRUE]]
      led == Only(ts, {t \in Teams : ls[t]})
  IN  IF c.fresh THEN [team |-> c.team, file |-> f, cache |-> c]
      ELSE IF f \in SetOf(ts) THEN found(f)
      ELSE IF led # <<>> THEN found(Head(led))
      ELSE found(None)

Ensured(ts, ls, f, c) ==
  LET found(t) == [team |-> t, file |-> t, cache |-> [team |-> t, fresh |-> TRUE]]
      led == Only(ts, {t \in Teams : ls[t]})
  IN  IF c.fresh THEN [team |-> c.team, file |-> f, cache |-> c]
      ELSE IF f \in SetOf(ts) /\ ls[f] THEN found(f)
      ELSE IF led # <<>> THEN found(Head(led))
      ELSE found(None)

Stale == [team |-> None, fresh |-> FALSE]

CurrentTeam == Ensured(teams, leads, file, cache)

Remember(e) == file' = e.file /\ cache' = e.cache

-----------------------------------------------------------------------------
(* What the panel shows.                                                   *)

Attached == <<"cockpit", "tasks", "mailbox", "members">>
Global   == <<"teams", "panes">>
Sections == SetOf(Attached) \cup SetOf(Global)
Order(d) == IF d.mode = "attached" THEN Attached ELSE Global

Rows(n) == [i \in 1..n |-> None]
NoRows  == [s \in Sections |-> <<>>]

(* The cockpit lists what is open among the tasks and unread among the     *)
(* messages.                                                               *)
AttachedData(t) ==
  {[mode |-> "attached", team |-> t,
    rows |-> [NoRows EXCEPT !["cockpit"] = Rows(n[1]), !["tasks"] = Rows(n[2]),
                            !["mailbox"] = Rows(n[3]),
                            !["members"] = Only(Members, members'[t])]] :
     n \in {k \in (0..MaxRows) \X (0..MaxRows) \X (0..MaxRows) : k[1] <= k[2] + k[3]}}

GlobalData ==
  {[mode |-> "global", team |-> None,
    rows |-> [NoRows EXCEPT !["teams"] = teams', !["panes"] = Rows(n)]] : n \in 0..MaxRows}

LoadPanelData(t) == IF t \in SetOf(teams') THEN AttachedData(t) ELSE GlobalData

(* windowSlice: where the part of a list begins that is on the screen.     *)
WindowStart(n, cursor) ==
  LET start == IF cursor < Window \div 2 THEN 0 ELSE cursor - (Window \div 2)
  IN  IF n <= Window THEN 0 ELSE IF start + Window > n THEN n - Window ELSE start

-----------------------------------------------------------------------------
(* TeamPanelState.  A section's row is kept in index, that of the focused  *)
(* one in selected too, and those of three sections in alias once more.    *)

Aliased == {"members", "teams", "panes"}
NoMenu  == [actions |-> <<>>, row |-> 0, confirming |-> None, yes |-> FALSE, open |-> FALSE]

CreateInitialPanelState ==
  [focus |-> "cockpit", selected |-> 0, index |-> [s \in Sections |-> 0],
   alias |-> [s \in Aliased |-> 0], scroll |-> "list", expanded |-> FALSE, menu |-> NoMenu]

Normalize(p) ==
  [p EXCEPT !.index = [s \in Sections |-> IF s = p.focus THEN p.selected
                                          ELSE IF s \in Aliased THEN p.alias[s]
                                          ELSE p.index[s]]]

SetStoredIndex(p, s, v) ==
  [p EXCEPT !.index[s] = v,
            !.alias = [a \in Aliased |-> IF a = s THEN v ELSE p.alias[a]]]

SyncActiveIndex(p) ==
  [p EXCEPT !.selected = p.index[p.focus], !.alias = [a \in Aliased |-> p.index[a]]]

SyncSelectedIndex(p) == SetStoredIndex(p, p.focus, p.selected)

ClampIndex(v, n) == IF n = 0 THEN 0 ELSE IF v < n THEN v ELSE n - 1

ClampPanelStateToData(p, d) ==
  LET q == Normalize(p)
      here  == SetOf(Order(d))
      focus == IF q.focus \in here THEN q.focus ELSE Order(d)[1]
      index == [s \in Sections |-> IF s \in here THEN ClampIndex(q.index[s], Len(d.rows[s]))
                                   ELSE q.index[s]]
      alias == [a \in Aliased |-> IF d.mode = "attached" \/ a \in here THEN index[a]
                                  ELSE q.alias[a]]
  IN  [q EXCEPT !.focus = focus, !.index = index, !.alias = alias, !.selected = index[focus]]

(* buildPanelSelectionView: the row of a section that is selected.         *)
SelectedRow(s) ==
  LET i == IF panel.focus = s THEN panel.selected ELSE panel.index[s]
  IN  IF i < Len(data.rows[s]) THEN [there |-> TRUE, name |-> data.rows[s][i + 1]]
      ELSE [there |-> FALSE, name |-> None]

-----------------------------------------------------------------------------
(* Opening and refreshing the panel.                                       *)

Open(t) ==
  /\ at' = "panel" /\ teamName' = t
  /\ data' \in LoadPanelData(t)
  /\ panel' = ClampPanelStateToData(CreateInitialPanelState, data')
  /\ aim' = None /\ result' = None

Reads == opens < MaxOpens /\ opens' = opens + 1

NoData == [mode |-> "none", team |-> None, rows |-> NoRows]

Close ==
  /\ at' = "idle" /\ teamName' = None /\ data' = NoData
  /\ panel' = CreateInitialPanelState /\ aim' = None /\ result' = None

PanelInit ==
  /\ teams = <<>>
  /\ leads = [t \in Teams |-> FALSE] /\ members = [t \in Teams |-> {}]
  /\ file = None /\ cache = Stale
  /\ at = "idle" /\ teamName = None /\ data = NoData
  /\ panel = CreateInitialPanelState /\ result = None /\ aim = None
  /\ elses = 0 /\ opens = 0

TeamCommand ==
  /\ at = "idle"
  /\ Reads
  /\ UNCHANGED <<world, elses>>
  /\ Remember(CurrentTeam)
  /\ Open(CurrentTeam.team)

(* Before a key is handled the indices are brought in line.                *)
Key(next(_)) ==
  /\ at = "panel"
  /\ panel' = next(Normalize(panel))
  /\ UNCHANGED <<world, binding, at, teamName, data, result, elses, opens>>

Browse(next(_)) == ~panel.menu.open /\ Key(next) /\ UNCHANGED aim

SetFocusMutantKeepsSelected(p, s) ==
  [SyncSelectedIndex(p) EXCEPT !.focus = s, !.scroll = "list"]

SetFocus(p, s) ==
  [SyncActiveIndex([SyncSelectedIndex(p) EXCEPT !.focus = s]) EXCEPT !.scroll = "list"]

Tab(direction) ==
  LET order == Order(data)
      now == CHOOSE i \in 1..Len(order) : order[i] = panel.focus
      next == order[((now - 1 + direction + Len(order)) % Len(order)) + 1]
  IN  Browse(LAMBDA p : SetFocus(p, next))

HotKey(s) == s \in SetOf(Order(data)) /\ Browse(LAMBDA p : SetFocus(p, s))

LeftRight(scroll) == Browse(LAMBDA p : [p EXCEPT !.scroll = scroll])

(* With the focus on the details, up and down scroll these.                *)
MoveTo(i) == Browse(LAMBDA p : SyncSelectedIndex([p EXCEPT !.selected = i]))

Up == panel.scroll = "list" /\ MoveTo(IF panel.selected = 0 THEN 0 ELSE panel.selected - 1)

Down ==
  /\ panel.scroll = "list"
  /\ LET n == Len(data.rows[panel.focus])
         last == IF n = 0 THEN 0 ELSE n - 1
     IN  MoveTo(IF panel.selected < last THEN panel.selected + 1 ELSE last)

Escape ==
  \/ panel.scroll = "detail" /\ LeftRight("list")
  \/ /\ panel.scroll = "list" /\ panel.expanded
     /\ Browse(LAMBDA p : [p EXCEPT !.expanded = FALSE])

(* q, and escape when there is nothing to leave.                           *)
Quit ==
  /\ at = "panel" /\ ~panel.menu.open
  /\ Close
  /\ UNCHANGED <<world, binding, elses, opens>>

-----------------------------------------------------------------------------
(* The menu.                                                               *)

Act(id, danger, team, member) == [id |-> id, danger |-> danger, team |-> team, member |-> member]

MaintenanceActions ==
  IF data.mode = "global"
    THEN <<Act("refresh", FALSE, None, None), Act("cleanup-all", TRUE, None, None)>>
    ELSE <<Act("refresh", FALSE, None, None), Act("sync", FALSE, None, None),
           Act("delete-team", TRUE, data.team, None), Act("cleanup-all", TRUE, None, None)>>

ContextActions ==
  LET row == SelectedRow(panel.focus)
  IN  IF ~row.there THEN <<>>
      ELSE <<Act("toggle-details", FALSE, None, None)>> \o
           CASE panel.focus = "teams"   -> <<Act("recover-team", FALSE, row.name, None),
                                             Act("delete-team", TRUE, row.name, None)>>
             [] panel.focus = "members" -> <<Act("remove-member", TRUE, data.team, row.name)>>
             [] OTHER                   -> <<>>

(* What the user sees named: the team of the panel, and the row marked in  *)
(* the focused list, if it is on the screen.                               *)
Marked ==
  LET n == Len(data.rows[panel.focus])
      start == WindowStart(n, Normalize(panel).index[panel.focus])
  IN  {data.rows[panel.focus][i + 1] :
         i \in {j \in 0..n - 1 : j = panel.selected /\ start <= j /\ j < start + Window}}

OpenActionMenu(actions) ==
  /\ ~panel.menu.open
  /\ Key(LAMBDA p : [p EXCEPT !.menu = [NoMenu EXCEPT !.actions = actions, !.open = TRUE]])
  /\ aim' = [team |-> data.team, row |-> Marked]

Menu(next(_)) == panel.menu.open /\ Key(LAMBDA p : [p EXCEPT !.menu = next(@)])

(* Up and down, in the list of actions or between cancel and confirm;      *)
(* enter, which asks once more before a dangerous action; escape.          *)
MenuMove ==
  /\ UNCHANGED aim
  /\ IF panel.menu.confirming # None
       THEN Menu(LAMBDA m : [m EXCEPT !.yes = ~@])
       ELSE \E row \in {panel.menu.row + 1, panel.menu.row - 1} :
              /\ row \in 0..Len(panel.menu.actions) - 1
              /\ Menu(LAMBDA m : [m EXCEPT !.row = row])

Chosen == panel.menu.actions[panel.menu.row + 1]

CanChoose == /\ at = "panel" /\ panel.menu.open /\ panel.menu.confirming = None
             /\ panel.menu.row < Len(panel.menu.actions)

MenuAsk ==
  /\ CanChoose /\ Chosen.danger
  /\ Menu(LAMBDA m : [m EXCEPT !.confirming = Chosen])
  /\ UNCHANGED aim

MenuCancel ==
  /\ \/ /\ panel.menu.confirming # None
        /\ Menu(LAMBDA m : [m EXCEPT !.confirming = None, !.yes = FALSE])
        /\ UNCHANGED aim
     \/ /\ panel.menu.confirming = None
        /\ Menu(LAMBDA m : NoMenu)
        /\ aim' = None

ToggleDetails ==
  /\ CanChoose /\ Chosen.id = "toggle-details"
  /\ Key(LAMBDA p : [p EXCEPT !.menu = NoMenu, !.expanded = ~@])
  /\ aim' = None

Refresh ==
  /\ CanChoose /\ Chosen.id = "refresh"
  /\ Reads
  /\ UNCHANGED <<world, binding, at, teamName, result, elses>>
  /\ data' \in LoadPanelData(teamName)
  /\ panel' = ClampPanelStateToData([Normalize(panel) EXCEPT !.menu = NoMenu], data')
  /\ aim' = None

(* The panel is done: the mailbox is synchronised and the panel opened     *)
(* again (LeaderSignals has the synchronisation), or the dialog asks.      *)
Sync ==
  /\ CanChoose /\ Chosen.id = "sync"
  /\ Reads
  /\ UNCHANGED <<world, elses>>
  /\ Remember(CurrentTeam)
  /\ Open(CurrentTeam.team)

Done ==
  /\ at = "panel"
  /\ \/ /\ panel.menu.confirming # None /\ panel.menu.yes
        /\ result' = panel.menu.confirming
     \/ /\ CanChoose /\ Chosen.id = "recover-team"
        /\ result' = Chosen
  /\ at' = "dialog"
  /\ UNCHANGED <<world, binding, screen, elses, opens>>

-----------------------------------------------------------------------------
(* The dialog, and the deeds.                                              *)

Asked(id) == at = "dialog" /\ result.id = id /\ Reads /\ UNCHANGED elses

(* Whether or not something was done, the panel is opened again for what   *)
(* is the session's team then.                                             *)
Reopen(ts, ls, f, c) ==
  LET e == Ensured(ts, ls, f, c)
  IN  Remember(e) /\ Open(e.team)

Decline ==
  /\ at = "dialog" /\ Reads /\ UNCHANGED <<world, elses>>
  /\ Reopen(teams, leads, file, cache)

RemoveSelectedMember ==
  /\ Asked("remove-member")
  /\ members' = IF result.team \in SetOf(teams)
                THEN [members EXCEPT ![result.team] = @ \ {result.member}] ELSE members
  /\ UNCHANGED <<teams, leads>>
  /\ Reopen(teams, leads, file, cache)

(* deleteTeamRuntime of each: with a team go the contexts of its leader    *)
(* and members.  The session's own context goes if own says so.            *)
DeletedTeams(gone, own) ==
  LET e  == CurrentTeam
      ts == Only(teams, Teams \ gone)
      ls == [t \in Teams |-> leads[t] /\ t \notin gone]
      cleared == own \/ \E t \in gone : leads[t]
  IN  /\ teams' = ts /\ leads' = ls
      /\ members' = [t \in Teams |-> IF t \in gone THEN {} ELSE members[t]]
      /\ IF cleared THEN Reopen(ts, ls, None, Stale) ELSE Reopen(ts, ls, e.file, e.cache)

DeleteSelectedTeamMutantCurrent ==
  /\ Asked("delete-team")
  /\ DeletedTeams(SetOf(teams) \cap {CurrentTeam.team}, TRUE)

DeleteSelectedTeam ==
  /\ Asked("delete-team")
  /\ DeletedTeams(SetOf(teams) \cap {result.team},
                  result.team \in SetOf(teams) /\ CurrentTeam.team = result.team)

CleanupAll ==
  /\ Asked("cleanup-all")
  /\ DeletedTeams(SetOf(teams), CurrentTeam.team # None)

(* recoverTeamAsCurrentLeader; a member that the team has in the pane of   *)
(* this session goes.                                                      *)
RecoverTeam ==
  /\ Asked("recover-team")
  /\ UNCHANGED teams
  /\ IF result.team \in SetOf(teams)
       THEN /\ leads' = [leads EXCEPT ![result.team] = TRUE]
            /\ \E stale \in {{}} \cup {{m} : m \in members[result.team]} :
                 members' = [members EXCEPT ![result.team] = @ \ stale]
            /\ file' = result.team /\ cache' = Stale
            /\ Open(result.team)
       ELSE UNCHANGED <<leads, members>> /\ Reopen(teams, leads, file, cache)

-----------------------------------------------------------------------------
(* Everything else: other sessions, and this one outside the panel.        *)

Else == elses < MaxElse /\ elses' = elses + 1 /\ UNCHANGED <<at, screen, result, opens>>

(* agentteam_create, of a new team or one whose leader's pane is gone, by  *)
(* a session without a team.                                               *)
ExecuteCreateTeam(t) ==
  /\ CurrentTeam.team \notin SetOf(teams)
  /\ Else
  /\ teams' = IF t \in SetOf(teams) THEN teams ELSE <<t>> \o teams
  /\ leads' = [leads EXCEPT ![t] = TRUE]
  /\ file' = t /\ cache' = Stale
  /\ UNCHANGED members

OtherCreates(t) ==
  /\ t \notin SetOf(teams)
  /\ Else
  /\ teams' = <<t>> \o teams
  /\ UNCHANGED <<leads, members, binding>>

OtherRecovers(t) ==
  /\ t \in SetOf(teams) /\ leads[t]
  /\ Else
  /\ leads' = [leads EXCEPT ![t] = FALSE]
  /\ UNCHANGED <<teams, members, binding>>

(* This session's context file goes with a team it leads; the cache, which *)
(* is in its memory, does not.                                             *)
OtherDeletes(t) ==
  /\ t \in SetOf(teams)
  /\ Else
  /\ teams' = Only(teams, Teams \ {t})
  /\ leads' = [leads EXCEPT ![t] = FALSE]
  /\ members' = [members EXCEPT ![t] = {}]
  /\ file' = IF leads[t] THEN None ELSE file
  /\ UNCHANGED cache

MemberComesOrGoes(t, m) ==
  /\ t \in SetOf(teams)
  /\ Else
  /\ members' = [members EXCEPT ![t] = IF m \in @ THEN @ \ {m} ELSE @ \cup {m}]
  /\ UNCHANGED <<teams, leads, binding>>

(* Hooks ask for the team too; after two seconds the cache does not count. *)
HookAsks ==
  /\ CurrentTeam.cache # cache
  /\ Else
  /\ Remember(CurrentTeam)
  /\ UNCHANGED world

CacheExpires ==
  /\ cache.fresh
  /\ Else
  /\ cache' = Stale
  /\ UNCHANGED <<world, file>>

-----------------------------------------------------------------------------
User ==
  \/ TeamCommand
  \/ \E direction \in {1, -1} : Tab(direction)
  \/ \E s \in Sections : HotKey(s)
  \/ \E scroll \in {"list", "detail"} : LeftRight(scroll)
  \/ Up \/ Down \/ Escape \/ Quit
  \/ OpenActionMenu(ContextActions) \/ OpenActionMenu(MaintenanceActions)
  \/ MenuMove \/ MenuAsk \/ MenuCancel \/ ToggleDetails \/ Refresh \/ Sync \/ Done
  \/ Decline \/ RemoveSelectedMember \/ DeleteSelectedTeam \/ CleanupAll \/ RecoverTeam

Others ==
  \/ \E t \in Teams : \/ ExecuteCreateTeam(t) \/ OtherCreates(t)
                      \/ OtherRecovers(t) \/ OtherDeletes(t)
                      \/ \E m \in SetOf(Members) : MemberComesOrGoes(t, m)
  \/ HookAsks \/ CacheExpires

PanelNext == User \/ Others

PanelSpec == PanelInit /\ [][PanelNext]_panelVars

-----------------------------------------------------------------------------
(* What the variables hold.                                                *)
Names == Teams \cup SetOf(Members) \cup {None}

PanelData == [mode : {"none", "attached", "global"}, team : Teams \cup {None},
              rows : [Sections -> Seq(Names)]]

MenuState == [actions : Seq(MenuAct), row : Nat, confirming : MenuAct \cup {None},
              yes : BOOLEAN, open : BOOLEAN]

TeamPanelState ==
  [focus : Sections, selected : Nat, index : [Sections -> Nat], alias : [Aliased -> Nat],
   scroll : {"list", "detail"}, expanded : BOOLEAN, menu : MenuState]

PanelTypeOK ==
  /\ teams \in Seq(Teams)
  /\ leads \in [Teams -> BOOLEAN] /\ members \in [Teams -> SUBSET SetOf(Members)]
  /\ \A t \in Teams \ SetOf(teams) : ~leads[t] /\ members[t] = {}
  /\ file \in Teams \cup {None}
  /\ cache \in [team : Teams \cup {None}, fresh : BOOLEAN]
  /\ at \in {"idle", "panel", "dialog"} /\ teamName \in Teams \cup {None}
  /\ data \in PanelData /\ panel \in TeamPanelState
  /\ aim \in [team : Teams \cup {None}, row : SUBSET Names] \cup {None}
  /\ result \in MenuAct \cup {None} /\ (at = "dialog" <=> result # None)
  /\ elses \in 0..MaxElse /\ opens \in 0..MaxOpens

(* The focused list, unless it is empty, has one row marked, and that row  *)
(* is on the screen: whatever was refreshed, recovered or deleted in       *)
(* between, and whichever of the indices kept of a section is used (the    *)
(* mark is drawn by one, the part of the list to show chosen by another).  *)
SelectionOnScreen ==
  at = "panel" /\ data.rows[panel.focus] # <<>> =>
    LET start == WindowStart(Len(data.rows[panel.focus]), Normalize(panel).index[panel.focus])
    IN  /\ panel.selected < Len(data.rows[panel.focus])
        /\ start <= panel.selected /\ panel.selected < start + Window

(* What is removed after the dialog is what the screen named when the menu *)
(* was opened, though teams were created, taken over and deleted between   *)
(* that and the answer: the team of the panel, or the row marked.  Only    *)
(* the cleanup removes more, and a recovery the member in its own pane.    *)
RemovedAsShown ==
  [][at = "dialog" /\ at' = "panel" =>
       /\ \A t \in SetOf(teams) \ SetOf(teams') :
            result.id = "cleanup-all" \/ t = aim.team \/ (aim.team = None /\ t \in aim.row)
       /\ \A t \in SetOf(teams') : \A m \in members[t] \ members'[t] :
            \/ result.id = "recover-team" /\ t = result.team
            \/ t = aim.team /\ m \in aim.row]_panelVars

(* A panel that opens on a team opens on one that this session leads, or   *)
(* led when it was last asked for, less than two seconds ago: not on one   *)
(* that was deleted and created again, or that another session took over.  *)
OpensOnItsOwnTeam ==
  [][at # "panel" /\ at' = "panel" /\ data'.mode = "attached" =>
       leads'[data'.team] \/ cache = [team |-> data'.team, fresh |-> TRUE]]_panelVars
=============================================================================
