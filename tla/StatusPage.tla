----------------------------- MODULE StatusPage -----------------------------
(***************************************************************************)
(* Status pages and the tags that choose their monitors.  Administrators   *)
(* write pages, in several database calls of which the last is a           *)
(* transaction that replaces the page's tags, and create, assign and       *)
(* delete tags; checks record statuses and incidents, in two calls; and    *)
(* visitors read a page, in five.                                          *)
(*                                                                         *)
(* Requests and visits interleave call by call.  A check may find that its *)
(* monitor is in maintenance, which leaves the incidents alone.  Titles,   *)
(* colours, uptimes and the daily bars of a page are left out.             *)
(***************************************************************************)
EXTENDS Integers, FiniteSets

CONSTANTS Pages, Tags, Monitors,   \* ids; none is used twice
          Slugs,
          None,
          Writers,       \* bound: page requests that may be under way at once
          Visits,        \* bound: visits that may take place
          ActiveLimit,   \* open incidents asked for, of all monitors
          RecentLimit,   \* closed incidents asked for, of all monitors
          ShownLimit,    \* closed incidents shown
          Budgets        \* bounds: how often each thing happens

Budget == [writes : Nat, tags : Nat, checks : Nat, faults : Nat]

ASSUME StatusPageAssumption ==
  /\ {None, "gone"} \cap Slugs = {} /\ None # "gone"
  /\ {ActiveLimit, RecentLimit, ShownLimit} \subseteq Nat
  /\ Budgets \subseteq Budget

VARIABLES
  slug,        \* status_pages: a page's slug; None before it is created and
               \* "gone" after it was deleted
  joins,       \* status_page_tags: page, tag and the transaction it is from
  tag,         \* tags: "unborn", "stored" or "gone"
  tagged,      \* monitor_tags: monitor and tag
  status,      \* monitors: last_status, "gone" once deleted
  incidents,   \* incidents: monitor, number in order of beginning, open or not;
               \* history: the monitor was in maintenance while it was open
  due,         \* what a check that wrote a status does next to the incidents
  writer,      \* requests that write a page
  visit,       \* visits to a page
  serial,      \* the number of transactions and incidents so far
  budget,
  asked,       \* history: the slug and tags last answered for a page, but for
               \* the tags deleted since
  disturbed    \* history: the pages with requests that overlapped, failed, or
               \* named a tag twice or one that was not there, until a request
               \* that meets no other has replaced the tags

spvars == <<slug, joins, tag, tagged, status, incidents, due, writer, visit,
            serial, budget, asked, disturbed>>

pages    == <<slug, joins>>
monitors == <<status, incidents, due>>
history  == <<asked, disturbed>>

NoVisit == [pc |-> "new", page |-> None, tags |-> {}, rows |-> [m \in {} |-> "up"],
            active |-> {}, recent |-> {}, known |-> {}, within |-> TRUE,
            quiet |-> TRUE]

SPInit ==
  /\ slug = [g \in Pages |-> None] /\ joins = {}
  /\ tag = [t \in Tags |-> "unborn"] /\ tagged = {}
  /\ status = [m \in Monitors |-> "unknown"] /\ incidents = {}
  /\ due = [m \in Monitors |-> "nothing"]
  /\ writer = [w \in Writers |-> [pc |-> "idle"]]
  /\ visit = [v \in Visits |-> NoVisit]
  /\ serial = 0 /\ budget \in Budgets
  /\ asked = [g \in Pages |-> [slug |-> None, tags |-> {}]] /\ disturbed = {}

Spend(what) == budget[what] > 0 /\ budget' = [budget EXCEPT ![what] = @ - 1]

Stored(g) == slug[g] \in Slugs

SlugExists(s, g) == \E h \in Pages \ {g} : slug[h] = s

JoinsOf(g) == {j \in joins : j.page = g}

GetTagIDs(g) == {j.tag : j \in JoinsOf(g)}

(* What an administrator is shown of a page, and the list of all pages     *)
GetByID(g) == [slug |-> slug[g], tags |-> GetTagIDs(g)]

List == [g \in {h \in Pages : Stored(h)} |-> GetByID(g)]

-----------------------------------------------------------------------------
(* Writing a page.                                                         *)

Goto(w, r)  == writer' = [writer EXCEPT ![w] = r]
Proceed(w, pc) == Goto(w, [writer[w] EXCEPT !.pc = pc])
Finish(w)   == Goto(w, [pc |-> "idle"])

Writes(w, g) == writer[w].pc # "idle" /\ writer[w].page = g

(* A request that begins while another for the page is under way disturbs. *)
Begin(w, g) ==
  /\ writer[w].pc = "idle"
  /\ Spend("writes")
  /\ disturbed' = disturbed \cup IF \E o \in Writers : Writes(o, g) THEN {g} ELSE {}

PageRequest(pc, g, s, tags) == [pc |-> pc, page |-> g, slug |-> s, tags |-> tags, seen |-> {}]

(* StatusPageUsecase.Create up to the look whether the slug is taken       *)
Create(w, g, s, tags) ==
  /\ slug[g] = None /\ \A o \in Writers : ~Writes(o, g)
  /\ Begin(w, g)
  /\ ~SlugExists(s, g)
  /\ Goto(w, PageRequest("insert", g, s, tags))
  /\ UNCHANGED <<pages, tag, tagged, monitors, visit, serial, asked>>

(* StatusPageUsecase.Update up to the same look: a request without a slug  *)
(* goes on with the slug that the page has at this moment.                 *)
Update(w, g, s, tags) ==
  /\ Begin(w, g)
  /\ Stored(g)
  /\ s = None \/ ~SlugExists(s, g)
  /\ Goto(w, PageRequest("save", g, IF s = None THEN slug[g] ELSE s, tags))
  /\ UNCHANGED <<pages, tag, tagged, monitors, visit, serial, asked>>

(* The unique index looks again.                                           *)
InsertPage(w) ==
  LET r == writer[w]
  IN  /\ r.pc = "insert"
      /\ IF SlugExists(r.slug, r.page)
         THEN UNCHANGED <<slug, asked>> /\ Finish(w)
         ELSE /\ slug' = [slug EXCEPT ![r.page] = r.slug]
              /\ asked' = [asked EXCEPT ![r.page] = [slug |-> r.slug, tags |-> {}]]
              /\ IF r.tags = {} THEN Finish(w) ELSE Proceed(w, "clear")
      /\ UNCHANGED <<joins, tag, tagged, monitors, visit, serial, budget, disturbed>>

(* A page that was deleted meanwhile is updated to no effect.              *)
SavePage(w) ==
  LET r == writer[w]
  IN  /\ r.pc = "save"
      /\ IF Stored(r.page) /\ SlugExists(r.slug, r.page)
         THEN UNCHANGED <<slug, asked>> /\ Finish(w)
         ELSE /\ slug' = IF Stored(r.page) THEN [slug EXCEPT ![r.page] = r.slug] ELSE slug
              /\ asked' = [asked EXCEPT ![r.page].slug = r.slug]
              /\ Proceed(w, "clear")
      /\ UNCHANGED <<joins, tag, tagged, monitors, visit, serial, budget, disturbed>>

(* Whatever earlier requests have left, one that is alone clears it away;  *)
(* should another begin before it ends, that disturbs anew.                *)
Repairs(w) ==
  IF \E o \in Writers \ {w} : Writes(o, writer[w].page) THEN {} ELSE {writer[w].page}

ClearNothing(w) ==   \* mutant: the new tags are added to the old
  /\ writer[w].pc = "clear"
  /\ Goto(w, [writer[w] EXCEPT !.pc = "commit", !.seen = {}])
  /\ disturbed' = disturbed \ Repairs(w)
  /\ UNCHANGED <<pages, tag, tagged, monitors, visit, serial, budget, asked>>

(* SetTags, the first statement: it deletes the rows that are there now.   *)
ClearTags(w) ==
  /\ writer[w].pc = "clear"
  /\ Goto(w, [writer[w] EXCEPT !.pc = "commit", !.seen = JoinsOf(writer[w].page)])
  /\ disturbed' = disturbed \ Repairs(w)
  /\ UNCHANGED <<pages, tag, tagged, monitors, visit, serial, budget, asked>>

(* SetTags, the others and the end of the transaction: the tags requested  *)
(* are added to what the first did not see.  A tag or page that is gone, a *)
(* tag that is there already or one that the request names twice (whether  *)
(* it does is let to chance here) undoes the transaction, and the request  *)
(* is answered all the same.                                               *)
SetTags(w) ==
  LET r     == writer[w]
      rest  == JoinsOf(r.page) \ r.seen
      there == \A t \in r.tags : tag[t] = "stored"
      fresh == Stored(r.page) /\ there /\ \A j \in rest : j.tag \notin r.tags
  IN  /\ r.pc = "commit"
      /\ serial' = serial + 1
      /\ \E twice \in {FALSE, r.tags # {}} :
           /\ joins' = IF fresh /\ ~twice
                       THEN (joins \ r.seen) \cup
                              {[page |-> r.page, tag |-> t, by |-> serial'] : t \in r.tags}
                       ELSE joins
           /\ disturbed' = disturbed \cup IF there /\ ~twice THEN {} ELSE {r.page}
      /\ asked' = [asked EXCEPT ![r.page].tags = {t \in r.tags : tag[t] = "stored"}]
      /\ Finish(w)
      /\ UNCHANGED <<slug, tag, tagged, monitors, visit, budget>>

(* A call fails.  What was done before it stays done.                      *)
WriteFails(w) ==
  /\ writer[w].pc # "idle"
  /\ Spend("faults")
  /\ disturbed' = disturbed \cup {writer[w].page}
  /\ Finish(w)
  /\ UNCHANGED <<pages, tag, tagged, monitors, visit, serial, asked>>

Delete(g) ==
  /\ Stored(g)
  /\ Spend("writes")
  /\ slug' = [slug EXCEPT ![g] = "gone"]
  /\ joins' = joins \ JoinsOf(g)
  /\ UNCHANGED <<tag, tagged, monitors, writer, visit, serial, history>>

-----------------------------------------------------------------------------
(* Tags.                                                                   *)

CreateTag(t) ==
  /\ Spend("tags") /\ tag[t] = "unborn"
  /\ tag' = [tag EXCEPT ![t] = "stored"]
  /\ UNCHANGED <<pages, tagged, monitors, writer, visit, serial, history>>

(* What refers to the tag goes with it.                                    *)
DeleteTag(t) ==
  /\ Spend("tags") /\ tag[t] = "stored"
  /\ tag' = [tag EXCEPT ![t] = "gone"]
  /\ joins' = {j \in joins : j.tag # t}
  /\ tagged' = {k \in tagged : k[2] # t}
  /\ asked' = [g \in Pages |-> [asked[g] EXCEPT !.tags = @ \ {t}]]
  /\ UNCHANGED <<slug, monitors, writer, visit, serial, disturbed>>

AssignTag(m, t) ==
  /\ Spend("tags") /\ tag[t] = "stored" /\ status[m] # "gone"
  /\ tagged' = tagged \cup {<<m, t>>}
  /\ UNCHANGED <<pages, tag, monitors, writer, visit, serial, history>>

UnassignTag(m, t) ==
  /\ Spend("tags") /\ <<m, t>> \in tagged
  /\ tagged' = tagged \ {<<m, t>>}
  /\ UNCHANGED <<pages, tag, monitors, writer, visit, serial, history>>

-----------------------------------------------------------------------------
(* Monitors, one check of each at a time.                                  *)

(* What happens to a monitor that is shown makes a visit less than quiet.  *)
Seen(m) == [v \in Visits |->
  IF m \in DOMAIN visit[v].rows /\ visit[v].pc = "active"
  THEN [visit[v] EXCEPT !.quiet = FALSE] ELSE visit[v]]

Open(m) == {i \in incidents : i.monitor = m /\ i.open}

UpdateLastStatus(m) ==
  /\ due[m] = "nothing" /\ status[m] # "gone"
  /\ Spend("checks")
  /\ \E s \in {"up", "down", "maintenance"} \ {status[m]} :
       /\ status' = [status EXCEPT ![m] = s]
       /\ due' = [due EXCEPT ![m] =
            CASE s = "down"                      -> "open"
              [] s = "up" /\ status[m] = "down"  -> "resolve"
              [] OTHER                           -> "nothing"]
       /\ incidents' = (incidents \ Open(m)) \cup
            {[i EXCEPT !.maintained = @ \/ s = "maintenance"] : i \in Open(m)}
  /\ visit' = Seen(m)
  /\ UNCHANGED <<pages, tag, tagged, writer, serial, history>>

(* An outage begins, unless one is open, which the unique index refuses;   *)
(* or the open one ends.                                                   *)
UpdateIncidents(m) ==
  /\ due[m] # "nothing"
  /\ due' = [due EXCEPT ![m] = "nothing"]
  /\ serial' = serial + 1
  /\ incidents' =
       CASE due[m] = "open" /\ Open(m) = {} ->
              incidents \cup {[monitor |-> m, n |-> serial', open |-> TRUE,
                               maintained |-> FALSE]}
         [] due[m] = "open" /\ Open(m) # {} -> incidents
         [] due[m] = "resolve" ->
              (incidents \ Open(m)) \cup {[i EXCEPT !.open = FALSE] : i \in Open(m)}
  /\ visit' = Seen(m)
  /\ UNCHANGED <<pages, tag, tagged, status, writer, budget, history>>

DeleteMonitor(m) ==
  /\ Spend("checks") /\ status[m] # "gone"
  /\ status' = [status EXCEPT ![m] = "gone"]
  /\ due' = [due EXCEPT ![m] = "nothing"]
  /\ incidents' = {i \in incidents : i.monitor # m}
  /\ tagged' = {k \in tagged : k[1] # m}
  /\ visit' = [v \in Visits |->
       [Seen(m)[v] EXCEPT !.known = {i \in @ : i.monitor # m}]]
  /\ UNCHANGED <<pages, tag, writer, serial, history>>

-----------------------------------------------------------------------------
(* Visits.                                                                 *)

VisitAt(v, pc) == visit[v].pc = pc

See(v, r) == visit' = [visit EXCEPT ![v] = r]

world == <<pages, tag, tagged, monitors, writer, serial, budget, history>>

FindBySlug(v, s) ==
  /\ VisitAt(v, "new")
  /\ \E g \in Pages : slug[g] = s /\ See(v, [NoVisit EXCEPT !.pc = "tags", !.page = g])
  /\ UNCHANGED world

ReadTags(v) ==
  /\ VisitAt(v, "tags")
  /\ See(v, [visit[v] EXCEPT !.pc = "monitors", !.tags = GetTagIDs(visit[v].page)])
  /\ UNCHANGED world

FindTagsByMonitor(m) == {t \in Tags : <<m, t>> \in tagged}

FindByTagIDs(ids) == {m \in Monitors : FindTagsByMonitor(m) \cap ids # {}}

(* Rows have the statuses of this moment; it is quiet if no check is       *)
(* between its status and its incident.                                    *)
ReadMonitors(v) ==
  LET found == FindByTagIDs(visit[v].tags)
  IN  /\ VisitAt(v, "monitors")
      /\ See(v, [visit[v] EXCEPT !.pc = "active",
                                 !.rows = [m \in found |-> status[m]],
                                 !.quiet = \A m \in found : due[m] = "nothing"])
      /\ UNCHANGED world

RowsWith(v, s) == {m \in DOMAIN visit[v].rows : visit[v].rows[m] = s}

computeOverallStatus(v) ==
  CASE RowsWith(v, "down") # {}    -> "outage"
    [] RowsWith(v, "down") = {} /\ RowsWith(v, "unknown") # {} -> "degraded"
    [] OTHER                       -> "operational"

(* The newest n of some incidents                                          *)
Newest(n, of) == {i \in of : Cardinality({j \in of : j.n > i.n}) < n}

Shown(v, of) == {i \in of : i.monitor \in DOMAIN visit[v].rows}

FindActive   == Newest(ActiveLimit, {i \in incidents : i.open})
FindResolved == Newest(RecentLimit, {i \in incidents : ~i.open})

ReadActiveOfDown(v) ==   \* mutant: only of monitors that were down before
  /\ VisitAt(v, "active")
  /\ See(v, [visit[v] EXCEPT !.pc = "recent", !.known = Shown(v, incidents),
         !.active = {i \in FindActive : i.monitor \in RowsWith(v, "down")},
         !.within = Cardinality({i \in incidents : i.open}) <= ActiveLimit])
  /\ UNCHANGED world

ReadActiveOfAll(v) ==   \* mutant: incidents of other monitors are shown too
  /\ VisitAt(v, "active")
  /\ See(v, [visit[v] EXCEPT !.pc = "recent", !.active = FindActive,
                             !.known = Shown(v, incidents),
                             !.within = Cardinality({i \in incidents : i.open}) <= ActiveLimit])
  /\ UNCHANGED world

ReadActive(v) ==
  /\ VisitAt(v, "active")
  /\ See(v, [visit[v] EXCEPT !.pc = "recent", !.active = Shown(v, FindActive),
                             !.known = Shown(v, incidents),
                             !.within = Cardinality({i \in incidents : i.open}) <= ActiveLimit])
  /\ UNCHANGED world

ReadRecent(v) ==
  /\ VisitAt(v, "recent")
  /\ See(v, [visit[v] EXCEPT !.pc = "shown",
        !.recent = Newest(ShownLimit, Shown(v, FindResolved)),
        !.within = /\ @ /\ Cardinality({i \in incidents : ~i.open}) <= RecentLimit
                   /\ Cardinality(Shown(v, FindResolved)) <= ShownLimit])
  /\ UNCHANGED world

(* A query that fails is taken for one that found nothing.                 *)
ReadFails(v) ==
  /\ visit[v].pc \notin {"new", "shown"}
  /\ Spend("faults")
  /\ LET next == [tags |-> "monitors", monitors |-> "active", active |-> "recent",
                  recent |-> "shown"]
     IN  See(v, [visit[v] EXCEPT !.pc = next[@], !.quiet = FALSE, !.within = FALSE])
  /\ UNCHANGED <<pages, tag, tagged, monitors, writer, serial, history>>

(* The requests of administrators                                          *)
HandlePage(w, g) ==
  \/ \E s \in Slugs, tags \in SUBSET Tags : Create(w, g, s, tags)
  \/ \E s \in Slugs \cup {None}, tags \in SUBSET Tags : Update(w, g, s, tags)
  \/ Delete(g)

HandleTag(t) == CreateTag(t) \/ DeleteTag(t)

HandleMonitorTag(m, t) == AssignTag(m, t) \/ UnassignTag(m, t)

Write(w) == InsertPage(w) \/ SavePage(w) \/ ClearTags(w) \/ SetTags(w) \/ WriteFails(w)

GetPublic(v) ==
  \/ \E s \in Slugs : FindBySlug(v, s)
  \/ ReadTags(v) \/ ReadMonitors(v) \/ ReadActive(v) \/ ReadRecent(v) \/ ReadFails(v)

SPNext ==
  \/ \E w \in Writers : Write(w)
  \/ \E w \in Writers, g \in Pages : HandlePage(w, g)
  \/ \E t \in Tags : HandleTag(t) \/ \E m \in Monitors : HandleMonitorTag(m, t)
  \/ \E m \in Monitors : UpdateLastStatus(m) \/ UpdateIncidents(m) \/ DeleteMonitor(m)
  \/ \E v \in Visits : GetPublic(v)

SPSpec == SPInit /\ [][SPNext]_spvars

-----------------------------------------------------------------------------
(* Properties.                                                             *)

(* Between requests a page has the slug and, but for those deleted since,  *)
(* the tags that were last answered for it; also when tags and other pages *)
(* come and go.  Requests that overlap (a transaction does not see the     *)
(* tags that another is adding), fail, or name a tag twice or one that was *)
(* deleted meanwhile (which undoes the transaction but not the answer) may *)
(* leave a mixture, but no longer than until the next request that meets   *)
(* no other: it leaves nothing of it.                                      *)
PageIsAsAnswered ==
  \A g \in DOMAIN List :
    g \notin disturbed /\ (\A w \in Writers : ~Writes(w, g))
    => List[g] = asked[g]

(* A page that reports an outage lists the incident of every monitor that  *)
(* is down, and an open incident that no maintenance came over is listed   *)
(* only together with its monitor as down, if the page's monitors were     *)
(* left alone by checks between the two queries that this is read by, and  *)
(* no more incidents are open than are asked for.                          *)
OutageIsExplained ==
  \A v \in Visits :
    visit[v].pc = "shown" /\ visit[v].quiet /\ visit[v].within
    => LET plain == {i \in visit[v].active : ~i.maintained}
       IN  /\ RowsWith(v, "down") \subseteq {i.monitor : i \in visit[v].active}
           /\ {i.monitor : i \in plain} \subseteq RowsWith(v, "down")
           /\ plain # {} => computeOverallStatus(v) = "outage"
           /\ computeOverallStatus(v) = "outage" => visit[v].active # {}

(* An incident that had begun when the open ones were read is on the page, *)
(* as open or as closed, whatever was closed between the two queries: none *)
(* of a monitor of the page falls between them, within the limits.         *)
IncidentsAreListed ==
  \A v \in Visits :
    visit[v].pc = "shown" /\ visit[v].within
    => \A i \in visit[v].known :
         \E k \in visit[v].active \cup visit[v].recent : k.n = i.n
=============================================================================
