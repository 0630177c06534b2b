------------------------------- MODULE Dashboard -------------------------------
(***************************************************************************)
(* The admin dashboard: the script of the page in admin/dashboardHtml.ts   *)
(* with the part of routes/admin.ts and middleware/admin.ts it talks to.   *)
(*                                                                         *)
(* Fetches are answered in any order, also after the operator has signed   *)
(* out.  One table, People, stands for all of them: dataTable is one       *)
(* component.  The cohort grid pages by hand.  The controls stand for the  *)
(* range, the weeks and "signed in only"; what a summary holds is a        *)
(* function of them.                                                       *)
(***************************************************************************)
EXTENDS Integers, SequencesExt, Ranking

CONSTANTS
    Tokens,       \* of the operator
    Controls,
    ServerRows,   \* for each of the controls, the people, in the query's order
    ServerCohorts,\* and the number of cohorts
    NoKey,        \* in a row: no value in the column that is sorted by
    Queries,      \* search texts; "" matches every row
    Matching,     \* the rows each of them matches
    PageSizes,    \* PAGE_SIZES, 0 for "All"; the least comes first
    PageSize,     \* of People at first
    CohortPage,   \* COHORT_PAGE
    FetchUsers,   \* FETCH.users
    MaxUsers,     \* the ceiling of the users parameter of the summary
    Fetches,      \* bound: fetches in flight at once
    MaxRotations  \* bound: how often ADMIN_TOKEN is replaced

ASSUME SizesAssumption ==
    /\ PageSize \in PageSizes /\ PageSizes \subseteq Nat
    /\ CohortPage \in Nat \ {0} /\ FetchUsers \in Nat \ {0} /\ MaxUsers \in Nat \ {0}
    /\ FetchUsers <= MaxUsers
    /\ MaxRotations \in Nat
ASSUME ServerAssumption ==
    /\ Controls # {}
    /\ \A c \in Controls :
          /\ ServerRows[c] \in Seq(ToSet(ServerRows[c])) /\ ServerCohorts[c] \in Nat
          /\ \A row \in ToSet(ServerRows[c]) : row.key \in Int \cup {NoKey}

Tabs == {"people", "retention"}

VARIABLES
    view,      \* "blank" until the first verify is answered, "gate", "shell"
    token,     \* state.token, {} or one
    saved,     \* sessionStorage
    controls, tab,
    data,      \* state.data: the controls of the summary it is, {} or one
    table,     \* tableUi.people
    cohorts,   \* tableUi.cohorts.page
    dom,       \* the tab and the data that were painted last, {} or one
    loading,
    req,       \* the fetches
    valid,     \* ADMIN_TOKEN
    rotations,
    \* Observer variables: no action reads them in a guard.
    overlap,   \* two loads were in flight together since none was
    failed,    \* the last load failed
    late       \* a summary arrived after the sign-out

pageVars == <<view, token, saved, controls, tab, data, table, cohorts, dom, loading>>
dashboardVars == <<pageVars, req, valid, rotations, overlap, failed, late>>

Idle == [kind |-> "idle"]
Free(f) == req[f] = Idle
Loads == {f \in Fetches : req[f].kind = "load"}

-------------------------------------------------------------------------------
(* The server.                                                             *)

\* intParam for a number.
IntParam(n, min, max) == IF n < min THEN min ELSE IF n > max THEN max ELSE n

\* requireAdmin lets the fetch pass.
Admitted(f) == req[f].tokens = {valid}

\* The summary's people: the query's LIMIT.
People(c) ==
    LET limit == IntParam(FetchUsers, 1, MaxUsers)
    IN  SubSeq(ServerRows[c], 1, IF limit < Len(ServerRows[c]) THEN limit ELSE Len(ServerRows[c]))

-------------------------------------------------------------------------------
(* dataTable.                                                              *)

CeilDiv(a, b) == (a + b - 1) \div b
AtLeast1(n) == IF n < 1 THEN 1 ELSE n

\* A numeric column: missing values come last, in either direction.
Above(a, b, desc) ==
    /\ a.key # NoKey
    /\ b.key = NoKey \/ (IF desc THEN a.key > b.key ELSE a.key < b.key)

\* The filter and the stable sort of paint, as positions in the rows.
Matches(rows, t) == {i \in DOMAIN rows : rows[i].id \in Matching[t.q]}

SortOrder(rows, t) ==
    {p \in (DOMAIN rows) \X (DOMAIN rows) :
        \/ Above(rows[p[1]], rows[p[2]], t.desc)
        \/ ~Above(rows[p[2]], rows[p[1]], t.desc) /\ p[1] < p[2]}

View(rows, t) == InOrder(Matches(rows, t), SortOrder(rows, t))

SizeOf(t, total) == IF t.size > 0 THEN t.size ELSE AtLeast1(total)

\* Mutant: the last page must be full.
PagesOf_Floor(total, size) == AtLeast1(total \div size)

PagesOf(total, size) == AtLeast1(CeilDiv(total, size))

Slice(s, page, size) ==
    SubSeq(s, (page - 1) * size + 1, IF page * size < Len(s) THEN page * size ELSE Len(s))

TablePages(rows, t) ==
    LET total == Cardinality(Matches(rows, t)) IN PagesOf(total, SizeOf(t, total))

Clamp(page, pages) == IF page > pages THEN pages ELSE AtLeast1(page)

\* paint clamps the page for good.
Painted(rows, t) == [t EXCEPT !.page = Clamp(@, TablePages(rows, t))]

Gap == 0

\* pageList: the numbers the pager renders, with gaps.
PageList(cur, total) ==
    LET from == IF cur - 1 < 2 THEN 2 ELSE cur - 1
        to   == IF cur + 1 > total - 1 THEN total - 1 ELSE cur + 1
    IN  IF total <= 7 THEN [p \in 1..total |-> p]
        ELSE <<1>> \o (IF from > 2 THEN <<Gap>> ELSE <<>>)
                   \o [k \in 1..(to - from + 1) |-> from + k - 1]
                   \o (IF to < total - 1 THEN <<Gap>> ELSE <<>>) \o <<total>>

\* The pages a click of the pager leads to; a single page has no pager.
Targets(cur, total) ==
    IF total = 1 THEN {} ELSE (ToSet(PageList(cur, total)) \cup {cur - 1, cur + 1}) \cap 1..total

CohortPages(c) == PagesOf(ServerCohorts[c], CohortPage)

\* A footer says that the server's ceiling cut the set off.
Capped(rows) == Len(rows) >= FetchUsers

-------------------------------------------------------------------------------
NewTable == [page |-> 1, size |-> PageSize, q |-> "", desc |-> TRUE]

\* The page is opened, or loaded again: what was in flight is aborted.
Boot ==
    /\ view' = IF saved = {} THEN "gate" ELSE "blank"
    /\ token' = {} /\ data' = {} /\ dom' = {} /\ loading' = FALSE
    /\ controls' = CHOOSE c \in Controls : TRUE
    /\ table' = NewTable /\ cohorts' = 1
    /\ \E f \in Fetches :
          req' = [g \in Fetches |-> IF g = f /\ saved # {}
                                    THEN [kind |-> "verify", tokens |-> saved, boot |-> TRUE]
                                    ELSE Idle]
    /\ overlap' = FALSE /\ failed' = FALSE /\ late' = FALSE
    /\ UNCHANGED <<saved, tab, valid, rotations>>

DashboardInit ==
    /\ view = "gate"
    /\ token = {} /\ saved = {} /\ data = {} /\ dom = {} /\ loading = FALSE
    /\ controls = CHOOSE c \in Controls : TRUE
    /\ tab \in Tabs
    /\ table = NewTable /\ cohorts = 1
    /\ req = [f \in Fetches |-> Idle]
    /\ valid \in Tokens /\ rotations = 0
    /\ overlap = FALSE /\ failed = FALSE /\ late = FALSE

\* The operator replaces ADMIN_TOKEN and deploys.
Rotate ==
    /\ rotations < MaxRotations
    /\ rotations' = rotations + 1
    /\ valid' \in Tokens \ {valid}
    /\ UNCHANGED <<pageVars, req, overlap, failed, late>>

-------------------------------------------------------------------------------
(* render and the tables.                                                  *)

\* render, of the summary of controls c in the tab: the table or the grid is built.
Render(t, c) ==
    /\ dom' = {[tab |-> t, data |-> c]}
    /\ table' = IF t = "people" THEN Painted(People(c), table) ELSE table
    /\ cohorts' = IF t = "retention" THEN Clamp(cohorts, CohortPages(c))
                  ELSE cohorts

SelectTab(t) ==
    /\ view = "shell" /\ tab # t
    /\ tab' = t
    /\ \/ data = {} /\ UNCHANGED <<dom, table, cohorts>>
       \/ \E c \in data : Render(t, c)
    /\ UNCHANGED <<view, token, saved, controls, data, loading, req, valid, rotations,
                   overlap, failed, late>>

\* The table is painted anew, with what the operator set.
Repaint(t) ==
    /\ view = "shell"
    /\ \E d \in dom : d.tab = "people" /\ table' = Painted(People(d.data), t)
    /\ UNCHANGED <<view, token, saved, controls, tab, data, cohorts, dom, loading, req, valid,
                   rotations, overlap, failed, late>>

Search(q) == q # table.q /\ Repaint([table EXCEPT !.q = q, !.page = 1])
Flip == Repaint([table EXCEPT !.desc = ~@, !.page = 1])
Resize(size) == size # table.size /\ Repaint([table EXCEPT !.size = size, !.page = 1])

GoTo(page) ==
    /\ \E d \in dom : d.tab = "people"
                      /\ page \in Targets(table.page, TablePages(People(d.data), table))
    /\ page # table.page
    /\ Repaint([table EXCEPT !.page = page])

GoToCohorts(page) ==
    /\ view = "shell"
    /\ \E d \in dom : d.tab = "retention"
                      /\ page \in Targets(cohorts, CohortPages(d.data))
    /\ cohorts' = page
    /\ UNCHANGED <<view, token, saved, controls, tab, data, table, dom, loading, req, valid,
                   rotations, overlap, failed, late>>

-------------------------------------------------------------------------------
(* load.                                                                   *)

\* A load with token t and controls c is sent by fetch f.
Load(f, t, c) ==
    /\ Free(f)
    /\ req' = [req EXCEPT ![f] = [kind |-> "load", tokens |-> t, controls |-> c]]
    /\ loading' = TRUE
    /\ overlap' = (Loads # {})
    /\ UNCHANGED <<valid, rotations, failed, late>>

\* A control is set and its load sent; Refresh sets none.
Change(f, c) ==
    /\ view = "shell"
    /\ controls' = c
    /\ Load(f, token, c)
    /\ UNCHANGED <<view, token, saved, tab, data, table, cohorts, dom>>

\* The answer is here: finally.
Over(f) ==
    /\ req' = [req EXCEPT ![f] = Idle]
    /\ loading' = FALSE
    /\ UNCHANGED <<valid, rotations, overlap>>

\* Whatever the page has become meanwhile, the summary is kept and rendered.
Loaded(f) ==
    /\ req[f].kind = "load" /\ Admitted(f)
    /\ data' = {req[f].controls}
    /\ Render(tab, req[f].controls)
    /\ failed' = FALSE /\ late' = (late \/ view # "shell")
    /\ Over(f)
    /\ UNCHANGED <<view, token, saved, controls, tab>>

\* A 429 of the limiter, a 500, no connection: the message is shown.
LoadFails(f) ==
    /\ req[f].kind = "load"
    /\ failed' = TRUE
    /\ Over(f)
    /\ UNCHANGED <<view, token, saved, controls, tab, data, table, cohorts, dom, late>>

\* Mutant: the summary of the session stays.
Lock_KeepsData ==
    /\ token' = {} /\ saved' = {} /\ view' = "gate" /\ late' = FALSE
    /\ UNCHANGED <<controls, tab, data, table, cohorts, dom>>

\* lock; what was painted stays behind the gate.
Lock ==
    /\ token' = {} /\ data' = {} /\ saved' = {} /\ view' = "gate" /\ late' = FALSE
    /\ UNCHANGED <<controls, tab, table, cohorts, dom>>

\* 401.
LoadRejected(f) ==
    /\ req[f].kind = "load" /\ ~Admitted(f)
    /\ Lock
    /\ Over(f)
    /\ UNCHANGED failed

-------------------------------------------------------------------------------
(* The gate.                                                               *)

Submit(f, t) ==
    /\ view = "gate" /\ Free(f)
    /\ req' = [req EXCEPT ![f] = [kind |-> "verify", tokens |-> {t}, boot |-> FALSE]]
    /\ UNCHANGED <<pageVars, valid, rotations, overlap, failed, late>>

\* unlock sends a load, here with the fetch that verified.
Verified(f) ==
    /\ req[f].kind = "verify" /\ Admitted(f)
    /\ view' = "shell" /\ token' = req[f].tokens /\ saved' = req[f].tokens
    /\ req' = [req EXCEPT ![f] = [kind |-> "load", tokens |-> req[f].tokens,
                                  controls |-> controls]]
    /\ loading' = TRUE
    /\ overlap' = (Loads # {})
    /\ UNCHANGED <<controls, tab, data, table, cohorts, dom, valid, rotations, failed, late>>

\* 401, 429 or no connection: a message at the gate; at boot the gate is shown.
VerifyFails(f) ==
    /\ req[f].kind = "verify"
    /\ req' = [req EXCEPT ![f] = Idle]
    /\ IF req[f].boot THEN Lock /\ UNCHANGED loading ELSE UNCHANGED <<pageVars, late>>
    /\ UNCHANGED <<valid, rotations, overlap, failed>>

SignOut ==
    /\ view = "shell"
    /\ Lock
    /\ UNCHANGED <<loading, req, valid, rotations, overlap, failed>>

DashboardNext ==
    \/ Boot \/ Rotate \/ SignOut \/ Flip
    \/ \E t \in Tabs : SelectTab(t)
    \/ \E q \in Queries : Search(q)
    \/ \E size \in PageSizes : Resize(size)
    \/ \E page \in 1..MaxUsers : GoTo(page) \/ GoToCohorts(page)
    \/ \E f \in Fetches :
         \/ \E c \in Controls : Change(f, c)
         \/ Loaded(f) \/ LoadFails(f) \/ LoadRejected(f)
         \/ \E t \in Tokens : Submit(f, t)
         \/ Verified(f) \/ VerifyFails(f)

DashboardSpec == DashboardInit /\ [][DashboardNext]_dashboardVars

-------------------------------------------------------------------------------
\* What the operator pages through is the whole set: whatever was searched, sorted,
\* resized or refreshed to fewer rows, the page is one that is there, every matching
\* row is on exactly one page, in the order of the sort, every page is reached by
\* its clicks, a gap stands where numbers are left out, and rows that the server
\* cut off are announced.
PagesSound ==
    view = "shell" => \A d \in dom :
        /\ d.tab = "people" =>
             LET rows  == People(d.data)
                 seq   == View(rows, table)
                 size  == SizeOf(table, Len(seq))
                 pages == TablePages(rows, table)
             IN  /\ table.page \in 1..pages
                 /\ FlattenSeq([p \in 1..pages |-> Slice(seq, p, size)]) = seq
                 /\ \A p \in 1..pages : Len(seq) > 0 => Slice(seq, p, size) # <<>>
                 /\ \A p \in 1..pages :
                       /\ pages > 1 => {1, p - 1, p + 1, pages} \cap 1..pages \subseteq Targets(p, pages)
                       /\ LET list == PageList(p, pages)
                          IN  \A k \in 1..(Len(list) - 1) :
                                 /\ list[k] # Gap /\ list[k + 1] # Gap => list[k + 1] = list[k] + 1
                                 /\ list[k] = Gap => list[k + 1] > list[k - 1] + 1
                 /\ rows # ServerRows[d.data] => Capped(rows)
        /\ d.tab = "retention" => cohorts \in 1..CohortPages(d.data)

\* When nothing is in flight, what is shown answers what the controls ask for, in
\* the tab that is marked, unless loads overlapped or the last one failed; behind
\* the gate the page keeps a summary only when it came after the sign-out.
ShownIsAsked ==
    /\ view = "shell" /\ Loads = {} /\ ~overlap /\ ~failed
          => data = {controls} /\ dom = {[tab |-> tab, data |-> controls]}
    /\ view # "shell" /\ ~late => data = {}
===============================================================================
