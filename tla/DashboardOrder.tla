------------------------------ MODULE DashboardOrder ---------------------------
(***************************************************************************)
(* The user's dashboards (internal/reporting, internal/store/sqlite): one  *)
(* order of rows, in groups that are tabs of one page.  A placement reads  *)
(* the order, computes its writes and makes them one by one, under         *)
(* placeMu; archiving, restoring and the purge take no lock.               *)
(*                                                                         *)
(* The table is db.  A sort key is the rows it comes after: a row is put   *)
(* behind the last of those.  Its id is never used again.                  *)
(***************************************************************************)
EXTENDS Integers, SequencesExt

CONSTANTS
    Callers,
    Made,           \* dashboards there are when the server starts
    MaxDashboards,  \* bound: dashboards ever made
    MaxCalls,       \* bound: requests
    MaxArchivings,  \* bound: requests that archive or restore, and purges
    MaxWriteFaults  \* bound: writes that fail

ASSUME DashboardAssumption ==
    /\ Made \in Nat /\ MaxDashboards \in Nat /\ Made <= MaxDashboards
    /\ MaxCalls \in Nat /\ MaxArchivings \in Nat /\ MaxWriteFaults \in Nat

VARIABLES
    db,         \* rows in order, their group, title, status; the groups' names
    placeMu,    \* the caller that holds the lock
    calling,    \* calling[c]: "idle", "asked" (it has read one row), "writes"
    want,       \* want[c]: what it was asked, and the row's group as read
    plan,       \* plan[c]: the writes it has yet to make
    statusSeen, \* history: the statuses as the holder of the lock read them
    calls, archivings, writeFaults \* bound

dashboardVars == <<db, placeMu, calling, want, plan, statusSeen, calls, archivings, writeFaults>>

Dashboards       == 1..MaxDashboards
NoCaller  == "no caller"
NoTitle   == "no title"
CopyTitle == "copy"
Titles    == {"a", "b", CopyTitle}
Top       == 0      \* after: 0, and group_id: 0
Alone     == 0
Unsaid    == -1     \* after or group_id not given
NoWant    == [kind |-> "none", id |-> 0, group |-> 0]

-----------------------------------------------------------------------------
(* order.go: questions about an order o as read.                           *)

Without(o, S)  == SelectSeq(o.order, LAMBDA d : d \notin S)
Group(o, g)    == SelectSeq(o.order, LAMBDA d : o.group[d] = g)
IsLive(o, d)     == d \in ToSet(o.order) /\ o.status[d] = "live"
LiveTabs(o, g)    == { d \in ToSet(Group(o, g)) : IsLive(o, d) }
Lone(o, d)     == LiveTabs(o, o.group[d]) \subseteq {d}
GroupsOf(o)    == { o.group[d] : d \in ToSet(o.order) }

\* A key after the first n rows of s, after row d, after d's whole group.
FirstOf(s, n)  == { s[i] : i \in 1..n }
Position(s, d) == CHOOSE i \in DOMAIN s : s[i] = d
Before(s, d)   == FirstOf(s, Position(s, d) - 1)
Upto(s, d)     == FirstOf(s, Position(s, d))
UptoGroup(o, s, d) ==
    FirstOf(s, CHOOSE i \in DOMAIN s : /\ o.group[s[i]] = o.group[d]
                                       /\ \A j \in i + 1..Len(s) : o.group[s[j]] # o.group[d])

\* keyAfterGroup: the keys it may return, none if it refuses.
KeyAfterGroup(o, self, after) ==
    LET rest == Without(o, {self}) IN
    CASE after = Unsaid -> {ToSet(rest)}
      [] after = Top    -> {{}}
      [] OTHER          -> { UptoGroup(o, rest, d) : d \in { d \in ToSet(rest) \cap {after} : IsLive(o, d) } }

KeyInGroup(o, self, g, after) ==
    LET rest    == Without(o, {self})
        members == SelectSeq(rest, LAMBDA d : o.group[d] = g) IN
    IF members = <<>>
    THEN IF after \in {Unsaid, Top, self} THEN {Before(o.order, self)} ELSE {}
    ELSE CASE after = Unsaid -> {Upto(rest, Last(members))}
           [] after = Top    -> {Before(rest, Head(members))}
           [] OTHER          -> { Upto(rest, d) : d \in { d \in ToSet(members) \cap {after} : IsLive(o, d) } }

\* moveGroup: where to, with the place it has left out.
GroupKeys(o, g, after) ==
    LET rest == Without(o, ToSet(Group(o, g))) IN
    IF after = Top THEN {{}}
    ELSE { UptoGroup(o, rest, d) : d \in { d \in ToSet(rest) \cap {after} : IsLive(o, d) } }

StaysPut(o, g, after) == GroupKeys(o, g, after) = {Before(o.order, Head(Group(o, g)))}

\* handOver: who is left of a group that has its number from row d, and the
\* one it has its number from after d.
Left(o, d)  == SelectSeq(Group(o, o.group[d]), LAMBDA e : e # d)
Heirs(o, d) == IF o.group[d] = d THEN ToSet(Left(o, d)) ELSE {}
Heir(o, d)  == LET lives == SelectSeq(Left(o, d), LAMBDA e : IsLive(o, e)) IN
               Head(IF lives # <<>> THEN lives ELSE Left(o, d))

-----------------------------------------------------------------------------
(* The writes, each a transaction.                                         *)

Names(g, t)             == [op |-> "name", group |-> g, title |-> t]
UpdatesRow(d, g, t, key)   == [op |-> "row", id |-> d, group |-> g, title |-> t, key |-> key]
Moves(rows, to, key)    == [op |-> "move", rows |-> rows, group |-> to, key |-> key, heirs |-> {}]
HandsOver(d, to, key, heirs, heir) ==
    [op |-> "move", rows |-> <<d>>, group |-> to, key |-> key, heirs |-> heirs, heir |-> heir]
Inserts(titles, g, name, key) ==
    [op |-> "insert", titles |-> titles, group |-> g, title |-> name, key |-> key]

Statuses(S, status)     == [op |-> "status", rows |-> S, status |-> status]

\* Rows put behind the last of key in an order.
PutRows(s, rows, key) ==
    LET rest == SelectSeq(s, LAMBDA d : d \notin ToSet(rows))
        n    == CHOOSE n \in 0..Len(rest) : /\ n = 0 \/ rest[n] \in key
                                            /\ \A j \in n + 1..Len(rest) : rest[j] \notin key IN
    SubSeq(rest, 1, n) \o rows \o SubSeq(rest, n + 1, Len(rest))

\* The triggers of migration 031: a group's name goes with its last row.
Triggered(old, new) ==
    [new EXCEPT !.name = [g \in Dashboards |->
                             IF g \in GroupsOf(old) \ GroupsOf(new) THEN NoTitle ELSE @[g]]]

\* The rows a write is of, all there or it is refused.
WriteRows(w) == CASE w.op = "row"  -> {w.id}
                  [] w.op = "move" -> ToSet(w.rows) \cup w.heirs
                  [] w.op = "status" -> w.rows
                  [] OTHER         -> {}

Moved(o, w) ==
    [o EXCEPT !.order = PutRows(@, w.rows, w.key),
              !.group = [d \in Dashboards |-> IF d \in ToSet(w.rows) THEN w.group
                                       ELSE IF d \in w.heirs THEN w.heir ELSE @[d]]]

\* Mutant of MoveDashboards: the name of a group stays with its number.
MutMoveDashboards(o, w) == Triggered(o, Moved(o, w))

\* The name of a group goes to its new number first.
MoveDashboards(o, w) ==
    Triggered(o, IF w.heirs = {} THEN Moved(o, w)
                 ELSE LET from == Head(w.rows) IN
                      [Moved(o, w) EXCEPT !.name[w.heir] = o.name[from], !.name[from] = NoTitle])

UpdateRow(o, w) ==
    Triggered(o, [o EXCEPT !.order = PutRows(@, <<w.id>>, w.key),
                           !.group[w.id] = w.group, !.title[w.id] = w.title])

\* InsertDashboard, InsertDashboardGroup: a group of 0 is the first row's id.
InsertRows(o, w) ==
    LET made == Cardinality({ d \in Dashboards : o.status[d] # "none" })
        ids  == [i \in 1..Len(w.titles) |-> made + i]
        g    == IF w.group = Alone THEN made + 1 ELSE w.group IN
    [o EXCEPT !.order  = PutRows(@, ids, w.key),
              !.group  = [d \in Dashboards |-> IF d \in ToSet(ids) THEN g ELSE @[d]],
              !.title  = [d \in Dashboards |-> IF d \in ToSet(ids) THEN w.titles[d - made] ELSE @[d]],
              !.status = [d \in Dashboards |-> IF d \in ToSet(ids) THEN "live" ELSE @[d]],
              !.name   = [h \in Dashboards |-> IF h = g /\ w.title # NoTitle THEN w.title ELSE @[h]]]

Written(o, w) ==
    CASE w.op = "name"   -> [o EXCEPT !.name[w.group] = w.title]
      [] w.op = "row"    -> UpdateRow(o, w)
      [] w.op = "move"   -> MoveDashboards(o, w)
      [] w.op = "insert" -> InsertRows(o, w)
      [] w.op = "status" -> [o EXCEPT !.status = [d \in Dashboards |-> IF d \in w.rows THEN w.status ELSE @[d]]]

-----------------------------------------------------------------------------
(* What a request writes: the plans it may come to over an order o, none   *)
(* if it is refused.                                                       *)

JoinsGroup(o, g) == LiveTabs(o, g) # {}       \* refuseGroup

\* settleLoneName: before a group of one live tab grows, its name becomes that
\* tab's title.
Settles(o, g) ==
    LET lone == LiveTabs(o, g) IN
    IF Cardinality(lone) = 1 /\ o.name[g] # NoTitle
    THEN LET d == CHOOSE d \in lone : TRUE IN
         IF o.name[g] = o.title[d] THEN <<>> ELSE <<Names(g, o.title[d])>>
    ELSE <<>>

CreatePlans(o, g, after) ==
    IF g = Alone
    THEN { <<Inserts(<<"a">>, Alone, NoTitle, k)>> : k \in KeyAfterGroup(o, 0, after) }
    ELSE { Settles(o, g) \o <<Inserts(<<"a">>, g, NoTitle, k)>> :
             k \in IF JoinsGroup(o, g) THEN KeyInGroup(o, 0, g, after) ELSE {} }

\* writePlaced: with the heirs in one transaction, then the row and its title.
PlacedAt(o, d, g, t, key) ==
    (IF Heirs(o, d) = {} THEN <<>> ELSE <<HandsOver(d, g, key, Heirs(o, d), Heir(o, d))>>)
    \o <<UpdatesRow(d, g, t, key)>>

\* Out of its group, behind it if no other place is asked for; which is refused
\* if the last row left in it is archived.
LeavePlans(o, d, after, t) ==
    LET asked == IF after = d THEN Unsaid ELSE after  left == Left(o, d) IN
    IF left = <<>>
    THEN { <<UpdatesRow(d, o.group[d], t, k)>> :
             k \in IF asked = Unsaid THEN {Before(o.order, d)} ELSE KeyAfterGroup(o, d, asked) }
    ELSE { PlacedAt(o, d, d, t, k) :
             k \in KeyAfterGroup(o, d, IF asked = Unsaid THEN Last(left) ELSE asked) }

Stays(o, d, t) == <<UpdatesRow(d, o.group[d], t, Before(o.order, d))>>

\* Mutant of MovePlans: the title is written with the key the row had.
MutMovePlans(o, d, after, said, t) ==
    LET g == o.group[d]  rows == Group(o, g) IN
    IF StaysPut(o, g, after) THEN {Stays(o, d, t)}
    ELSE { <<Moves(rows, g, k)>> \o (IF ~said THEN <<>> ELSE Stays(o, d, t)) : k \in GroupKeys(o, g, after) }

\* With its whole group; a new title is a write of its own.
MovePlans(o, d, after, said, t) ==
    LET g == o.group[d]  rows == Group(o, g) IN
    IF StaysPut(o, g, after) THEN {Stays(o, d, t)}
    ELSE { <<Moves(rows, g, k)>> \o
           (IF ~said THEN <<>> ELSE <<UpdatesRow(d, g, t, k \cup Before(rows, d))>>) :
             k \in GroupKeys(o, g, after) }

\* placeDashboard, of row d to group g, after a row, with title t if it is said.
PlacePlans(o, d, g, after, said, t) ==
    CASE g = Alone -> LeavePlans(o, d, after, t)
      [] g \in Dashboards /\ ~JoinsGroup(o, g) -> {}
      [] g \in Dashboards /\ after = d /\ o.group[d] = g -> {Stays(o, d, t)}
      [] g \in Dashboards ->
             { IF g = o.group[d] THEN <<UpdatesRow(d, g, t, k)>> ELSE PlacedAt(o, d, g, t, k) :
                 k \in KeyInGroup(o, d, g, after) }
      [] g = Unsaid /\ after \in {Unsaid, d} -> {Stays(o, d, t)}
      [] g = Unsaid /\ after \in ToSet(Group(o, o.group[d])) ->
             { <<UpdatesRow(d, o.group[d], t, k)>> : k \in KeyInGroup(o, d, o.group[d], after) }
      [] OTHER -> MovePlans(o, d, after, said, t)

UpdatePlans(o, d, g, after, said) ==
    LET t     == IF said = NoTitle THEN o.title[d] ELSE said
        keeps == g \in {Unsaid, o.group[d]} \/ (g = Alone /\ Left(o, d) = <<>>)
        first == IF keeps \/ g = Alone THEN <<>> ELSE Settles(o, g)
        last  == IF said # NoTitle /\ keeps /\ o.name[o.group[d]] # NoTitle /\ Lone(o, d)
                 THEN <<Names(o.group[d], said)>> ELSE <<>> IN
    { first \o p \o last : p \in PlacePlans(o, d, g, after, said # NoTitle, t) }

\* renameGroup: the only live tab takes the name as its title.
RenamePlan(o, d, t) ==
    (IF Lone(o, d) /\ o.title[d] # t THEN Stays(o, d, t) ELSE <<>>) \o <<Names(o.group[d], t)>>

\* duplicateOne of row d, its group seen before the lock was taken.
CopyPlans(o, d, seen, g) ==
    { (IF g = Alone THEN <<>> ELSE Settles(o, g)) \o <<Inserts(<<CopyTitle>>, g, NoTitle, k)>> :
        k \in CASE g = Alone -> KeyAfterGroup(o, 0, Unsaid)
                [] g = seen  -> KeyInGroup(o, 0, g, d)
                [] OTHER     -> IF JoinsGroup(o, g) THEN KeyInGroup(o, 0, g, Unsaid) ELSE {} }

\* duplicateGroup: the live tabs of the group seen before the lock was taken.
\* If none is left it writes nothing, and then has no copy to answer with.
GroupCopyPlans(o, seen) ==
    LET rows  == SelectSeq(Group(o, seen), LAMBDA d : IsLive(o, d))
        named == Len(rows) > 1 /\ o.name[seen] # NoTitle IN
    IF rows = <<>> THEN {}
    ELSE { <<Inserts([i \in DOMAIN rows |-> IF i = 1 THEN CopyTitle ELSE o.title[rows[i]]], Alone,
                     IF named THEN CopyTitle ELSE NoTitle, ToSet(o.order))>> }

Groups == {Unsaid, Alone} \cup Dashboards
Afters == {Unsaid, Top} \cup Dashboards

Plans(o, w) ==
    CASE w.kind = "create"    -> UNION { CreatePlans(o, g, a) : g \in Groups \ {Unsaid}, a \in Afters }
      [] w.kind = "copy"      -> UNION { CopyPlans(o, w.id, w.group, g) : g \in Groups \ {Unsaid} }
      [] w.kind = "copyGroup" -> GroupCopyPlans(o, w.group)
      [] w.id \notin ToSet(o.order) -> {}
      [] w.kind = "rename"    -> { RenamePlan(o, w.id, t) : t \in {"a", "b"} }
      [] w.kind = "update"    ->
             UNION { UpdatePlans(o, w.id, u[1], u[2], u[3]) :
                       u \in (Groups \X Afters \X {NoTitle, "b"}) \ {<<Unsaid, Unsaid, NoTitle>>} }

-----------------------------------------------------------------------------
(* The requests.                                                           *)

Fits(p) == \A i \in DOMAIN p : p[i].op = "insert" =>
               Cardinality({ d \in Dashboards : db.status[d] # "none" }) + Len(p[i].titles) <= MaxDashboards

PlacementReturns(c) ==
    /\ calling' = [calling EXCEPT ![c] = "idle"]
    /\ want' = [want EXCEPT ![c] = NoWant]
    /\ plan' = [plan EXCEPT ![c] = <<>>]
    /\ placeMu' = IF placeMu = c THEN NoCaller ELSE placeMu

\* editableDashboard and GetDashboard: one row is read, and has to be live.
AsksPlacement(c) ==
    /\ calling[c] = "idle" /\ calls < MaxCalls /\ calls' = calls + 1
    /\ calling' = [calling EXCEPT ![c] = "asked"]
    /\ \/ want' = [want EXCEPT ![c] = [NoWant EXCEPT !.kind = "create"]]
       \/ \E kind \in {"update", "rename", "copy", "copyGroup"}, d \in Dashboards :
             /\ IsLive(db, d)
             /\ want' = [want EXCEPT ![c] = [kind |-> kind, id |-> d,
                            group |-> IF kind \in {"copy", "copyGroup"} THEN db.group[d] ELSE 0]]
    /\ UNCHANGED <<db, placeMu, plan, statusSeen, archivings, writeFaults>>

\* placeDashboards: the lock, the order and what is to be written.
Places(c) ==
    /\ calling[c] = "asked" /\ want[c].kind \notin {"archive", "restore"}
    /\ placeMu = NoCaller /\ placeMu' = c
    /\ \E p \in Plans(db, want[c]) :
          Fits(p) /\ plan' = [plan EXCEPT ![c] = p]
    /\ calling' = [calling EXCEPT ![c] = "writes"]
    /\ statusSeen' = db.status
    /\ UNCHANGED <<db, want, calls, archivings, writeFaults>>

\* It is refused.
RefusesPlacement(c) ==
    /\ calling[c] = "asked" /\ want[c].kind \notin {"archive", "restore"}
    /\ placeMu = NoCaller
    /\ Plans(db, want[c]) = {}
    /\ PlacementReturns(c)
    /\ UNCHANGED <<db, statusSeen, calls, archivings, writeFaults>>

\* A row is read, to be archived or restored, maybe with its group.
AsksArchiving(c) ==
    /\ calling[c] = "idle" /\ archivings < MaxArchivings /\ archivings' = archivings + 1
    /\ calling' = [calling EXCEPT ![c] = "asked"]
    /\ \E kind \in {"archive", "restore"}, d \in ToSet(db.order) :
          want' = [want EXCEPT ![c] = [kind |-> kind, id |-> d, group |-> db.group[d]]]
    /\ UNCHANGED <<db, placeMu, plan, statusSeen, calls, writeFaults>>

\* setDashboardArchived: the row, or those that now have the group it was in.
Archives(c) ==
    /\ calling[c] = "asked" /\ want[c].kind \in {"archive", "restore"}
    /\ calling' = [calling EXCEPT ![c] = "writes"]
    /\ \E S \in {{want[c].id}, ToSet(Group(db, want[c].group))} :
          plan' = [plan EXCEPT ![c] = <<Statuses(S, IF want[c].kind = "archive" THEN "archived" ELSE "live")>>]
    /\ UNCHANGED <<db, placeMu, want, statusSeen, calls, archivings, writeFaults>>

\* A write, refused if one of its rows has been purged.
Writes(c) ==
    /\ calling[c] = "writes"
    /\ LET w == Head(plan[c])  there == WriteRows(w) \subseteq ToSet(db.order) IN
       /\ db' = IF there THEN Written(db, w) ELSE db
       /\ IF there /\ Len(plan[c]) > 1
          THEN plan' = [plan EXCEPT ![c] = Tail(@)] /\ UNCHANGED <<placeMu, calling, want>>
          ELSE PlacementReturns(c)
    /\ statusSeen' = IF placeMu' = NoCaller THEN db'.status ELSE statusSeen
    /\ UNCHANGED <<calls, archivings, writeFaults>>

\* The write fails, or the request's context has ended.
WriteFails(c) ==
    /\ calling[c] = "writes" /\ writeFaults < MaxWriteFaults /\ writeFaults' = writeFaults + 1
    /\ PlacementReturns(c)
    /\ statusSeen' = IF placeMu' = NoCaller THEN db.status ELSE statusSeen
    /\ UNCHANGED <<db, calls, archivings>>

\* PurgeArchived of a row archived long ago: longer than any request takes.
PurgesDashboard(d) ==
    /\ archivings < MaxArchivings /\ archivings' = archivings + 1
    /\ d \in ToSet(db.order) /\ db.status[d] = "archived"
    /\ \A c \in Callers : want[c].id = d => want[c].kind \in {"archive", "restore"}
    /\ placeMu # NoCaller => statusSeen[d] = "archived"
    /\ db' = Triggered(db, [db EXCEPT !.order = SelectSeq(@, LAMBDA e : e # d),
                                      !.group[d] = 0, !.title[d] = NoTitle, !.status[d] = "purged"])
    /\ statusSeen' = IF placeMu = NoCaller THEN db'.status ELSE statusSeen
    /\ UNCHANGED <<placeMu, calling, want, plan, calls, writeFaults>>

-----------------------------------------------------------------------------

\* A group's rows are contiguous, and its number is that of one of its own
\* rows, or of one that is purged; only a group that has rows has a name.
WholeGroups(o) ==
    /\ \A i, j, k \in DOMAIN o.order :
          i < j /\ j < k /\ o.group[o.order[i]] = o.group[o.order[k]]
             => o.group[o.order[j]] = o.group[o.order[i]]
    /\ \A d \in ToSet(o.order) :
          LET g == o.group[d] IN IF g \in ToSet(o.order) THEN o.group[g] = g ELSE o.status[g] = "purged"
    /\ \A g \in Dashboards : o.name[g] # NoTitle => g \in GroupsOf(o)

\* The user has arranged, named and archived the dashboards there are anyhow.
Arrangements ==
    { o \in [order  : {[i \in 1..Made |-> i]},
             group  : { [d \in Dashboards |-> IF d <= Made THEN g[d] ELSE 0] : g \in [1..Made -> 1..Made] },
             title  : {[d \in Dashboards |-> IF d <= Made THEN "a" ELSE NoTitle]},
             status : { [d \in Dashboards |-> IF d > Made THEN "none"
                                             ELSE IF d \in S THEN "archived" ELSE "live"] :
                          S \in SUBSET (1..Made) },
             name   : { [g \in Dashboards |-> IF g \in S THEN "b" ELSE NoTitle] : S \in SUBSET (1..Made) }] :
        WholeGroups(o) }

DashboardInit ==
    /\ db \in Arrangements /\ statusSeen = db.status
    /\ placeMu = NoCaller
    /\ calling = [c \in Callers |-> "idle"] /\ want = [c \in Callers |-> NoWant]
    /\ plan = [c \in Callers |-> <<>>]
    /\ calls = 0 /\ archivings = 0 /\ writeFaults = 0

DashboardNext ==
    \/ \E c \in Callers :
          \/ AsksPlacement(c) \/ Places(c) \/ RefusesPlacement(c)
          \/ AsksArchiving(c) \/ Archives(c) \/ Writes(c) \/ WriteFails(c)
    \/ \E d \in Dashboards : PurgesDashboard(d)

DashboardSpec == DashboardInit /\ [][DashboardNext]_dashboardVars

-----------------------------------------------------------------------------

DashboardTypeOK ==
    /\ ToSet(db.order) \subseteq Dashboards /\ IsInjective(db.order)
    /\ db.group \in [Dashboards -> 0..MaxDashboards] /\ db.title \in [Dashboards -> Titles \cup {NoTitle}]
    /\ db.status \in [Dashboards -> {"none", "live", "archived", "purged"}]
    /\ db.name \in [Dashboards -> Titles \cup {NoTitle}]
    /\ placeMu \in Callers \cup {NoCaller}
    /\ calling \in [Callers -> {"idle", "asked", "writes"}]
    /\ \A c \in Callers : (plan[c] # <<>>) <=> calling[c] = "writes"
    /\ calls \in 0..MaxCalls /\ archivings \in 0..MaxArchivings /\ writeFaults \in 0..MaxWriteFaults

\* Whatever writes of two requests, faults and archivings fall between those of
\* a placement (order.go:14-38), the table is one the page can show.
GroupsAreWhole == WholeGroups(db)

\* The step is a write of a placement; of a name that was asked for.
IsWrite     == \E c \in Callers : calling[c] = "writes" /\ plan'[c] # plan[c] /\ Head(plan[c]).op # "status"
IsNameWrite == \E c \in Callers : calling[c] = "writes" /\ plan'[c] # plan[c] /\ Head(plan[c]).op = "name"

\* It gives the only live tab of a group another.
TabGainsAnother(d) ==
    /\ IsWrite /\ statusSeen = db.status
    /\ IsLive(db, d) /\ Lone(db, d) /\ ~Lone(db', d) /\ db'.group[d] = db.group[d]

\* A group's name goes with its rows: with all that stay behind when one leaves
\* it, whatever number they then go by.  And once another joins the only live
\* tab of a group, the group is not called anything but that tab was, unless
\* others were archived since the order was read.
NamesFollow ==
    [][ /\ \A g \in Dashboards : db.name[g] # NoTitle /\ ~IsNameWrite =>
              LET stay == ToSet(Group(db, g)) \cap ToSet(db'.order) IN
              Cardinality(stay) > 1 =>
                 \E h \in Dashboards : /\ db'.name[h] = db.name[g]
                                /\ Cardinality({ d \in stay : db'.group[d] # h }) <= 1
        /\ \A d \in Dashboards : TabGainsAnother(d) => db'.name[db'.group[d]] \in {NoTitle, db.title[d]}
      ]_dashboardVars

=============================================================================
