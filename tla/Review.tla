------------------------------- MODULE Review -------------------------------
(***************************************************************************)
(* The review page (static/js/review.js, filters.js, compare.js, ui.js)    *)
(* against the review routes (api/routes/queue.py, cluster.py, photo.py,   *)
(* decide.py).  The page keeps copies of what the server has: the grid,    *)
(* the pending decisions and the detail of the photo in the viewer, each   *)
(* replaced by whichever answer arrives, and the viewer walks a list taken *)
(* from the grid when it was opened.  What a request does when it is       *)
(* answered is fixed when it is sent, as the closures of React fix it: the *)
(* sort to load, the photo to go to, the photo to read again.              *)
(***************************************************************************)
EXTENDS Naturals, SequencesExt

CONSTANTS
    Photo, None,
    SortOrder,      \* SORT_ORDERS: the photos in each order
    Rendered,       \* the photos with an enhanced render
    Applied,        \* the photos exported before
    MaxActs,        \* bound on what the user does
    MaxNet          \* bound on the requests under way when the user acts

ASSUME ReviewAssumption ==
    /\ IsFiniteSet(Photo) /\ Rendered \subseteq Photo /\ Applied \subseteq Photo
    /\ None \notin Photo \cup DOMAIN SortOrder
    /\ \A order \in DOMAIN SortOrder :
          /\ SortOrder[order] \in Seq(Photo) /\ ToSet(SortOrder[order]) = Photo
          /\ IsInjective(SortOrder[order])
    /\ MaxActs \in Nat /\ MaxNet \in Nat

VARIABLES
    row,                        \* decisions: export_choice and keep_raw
    net,                        \* the requests under way, as they were sent
    sort, filter, grid, pending,    \* ReviewPanel
    viewer, open, detail,           \* viewerHashes, openHash, DetailModal
    acts,
    \* history: nothing crossed on the way; the photos chosen one after another
    calm, judged

panel == <<sort, filter>>
copies == <<grid, pending, detail>>
vars == <<row, net, panel, copies, viewer, open, acts, calm, judged>>

EXPORT_CHOICES == {"original", "enhanced", "discard"}
Undecided == [choice |-> "undecided", keep |-> FALSE]
NoDetail == [photo |-> None, row |-> Undecided]
NoGrid == [by |-> None, rows |-> [p \in Photo |-> Undecided]]
Pending(rows) == {p \in Photo \ Applied : rows[p].choice \in {"original", "enhanced"}}

-----------------------------------------------------------------------------
(* Requests.                                                               *)

Request == [kind |-> "queue", by |-> sort, photo |-> None, change |-> <<>>,
            then |-> "nothing", next |-> None, served |-> FALSE, answer |-> <<>>]
\* Mutant of Refresh: without the pending decisions.
RefreshQueue(by) == <<[Request EXCEPT !.by = by]>>
Refresh(by) == <<[Request EXCEPT !.by = by], [Request EXCEPT !.kind = "pending"]>>
Read(p, then) == [Request EXCEPT !.kind = "detail", !.photo = p, !.then = then]
Post(change, then, next) ==
    [Request EXCEPT !.kind = "post", !.change = change, !.then = then, !.next = next]

UnderWay(then) == \E i \in DOMAIN net : net[i].then = then
Saving == UnderWay("advance")
Reloading == UnderWay("reload")
Busy == UnderWay("refresh") \/ UnderWay("group")

Place(p, list) == CHOOSE i \in DOMAIN list : list[i] = p
\* The sublist of the photos of S.
InOrder(S, list) ==
    CHOOSE q \in [1..Cardinality(S) -> S] :
        \A j, k \in DOMAIN q : j < k => Place(q[j], list) < Place(q[k], list)

\* The next photo of the viewer's list, around its end; from a photo that is
\* not in it, the first.
Position(p) == IF p \in ToSet(viewer) THEN Place(p, viewer) ELSE 0
Ahead(k) == viewer[1 + ((Position(open) + k - 1) % Len(viewer))]
Behind == viewer[IF Position(open) <= 1 THEN Len(viewer) ELSE Position(open) - 1]

Matches(r) == filter = "all" \/ r.choice = filter
Items ==
    IF grid = NoGrid THEN <<>>
    ELSE InOrder({p \in Photo : Matches(grid.rows[p])}, SortOrder[grid.by])

\* Mutant of Following: in the list as it is shown now.
FollowingLive ==
    LET after == SelectSeq(Items, LAMBDA p : p # open)
    IN IF after = <<>> THEN None ELSE Head(after)
Following == IF viewer = <<>> THEN None ELSE Ahead(1)

-----------------------------------------------------------------------------
Init ==
    /\ row = [p \in Photo |-> Undecided]
    /\ sort \in DOMAIN SortOrder /\ filter = "all"
    /\ grid = NoGrid /\ pending = {} /\ detail = NoDetail
    /\ net = Refresh(sort)
    /\ viewer = <<>> /\ open = None
    /\ acts = 0 /\ calm = TRUE /\ judged = <<>>

Act == acts < MaxActs /\ Len(net) <= MaxNet /\ acts' = acts + 1

\* A refetch of the old sort may still be to come from a save under way.
SetSort ==
    /\ Act /\ open = None
    /\ sort' \in DOMAIN SortOrder \ {sort}
    /\ net' = Append(net, [Request EXCEPT !.by = sort'])
    /\ calm' = (calm /\ \A i \in DOMAIN net : net[i].then = "nothing")
    /\ UNCHANGED <<row, filter, copies, viewer, open, judged>>

SetFilter ==
    /\ Act /\ open = None
    /\ filter' \in {"all", "undecided"} \ {filter}
    /\ UNCHANGED <<row, net, sort, copies, viewer, open, calm, judged>>

\* The viewer is mounted anew, its detail loaded, which no later refresh reads
\* again.
OpenPhoto(p) ==
    /\ Act /\ open = None /\ p \in ToSet(Items)
    /\ viewer' = Items /\ open' = p
    /\ net' = Append(net, Read(p, "nothing"))
    /\ judged' = <<>>
    /\ calm' = (calm /\ \A i \in DOMAIN net : net[i].kind # "post")
    /\ UNCHANGED <<row, panel, copies>>

\* What is still to come for the detail meets no component.
Unmounted(r) ==
    IF r.kind = "detail" THEN [r EXCEPT !.photo = None]
    ELSE IF r.then = "reload" THEN [r EXCEPT !.next = None] ELSE r
CloseViewer ==
    /\ Act /\ open # None
    /\ open' = None /\ viewer' = <<>> /\ detail' = NoDetail
    /\ net' = [i \in DOMAIN net |-> Unmounted(net[i])]
    /\ calm' = (calm /\ ~Saving)
    /\ judged' = <<>>
    /\ UNCHANGED <<row, panel, grid, pending>>

\* setOpenHash: a change of photo loads its detail; until then, the detail of
\* the photo before stays.
GoTo(p) ==
    /\ open' = p
    /\ net' = IF p = open THEN net ELSE Append(net, Read(p, "nothing"))
    /\ calm' = (calm /\ ~Reloading /\ ~Saving)
    /\ judged' = <<>>
    /\ UNCHANGED <<row, panel, copies, viewer>>

Walk == Act /\ open # None /\ viewer # <<>> /\ (GoTo(Ahead(1)) \/ GoTo(Behind))

\* Over the live grid, so that a decision not yet loaded counts as none.
\* Mutant of FirstUndecided: from the second photo on.
FirstUndecidedLate ==
    LET found == {k \in 2..Len(viewer) : grid.rows[Ahead(k)].choice = "undecided"}
    IN IF found = {} THEN open ELSE Ahead(CHOOSE k \in found : \A m \in found : k <= m)
FirstUndecided ==
    LET found == {k \in 1..Len(viewer) : grid.rows[Ahead(k)].choice = "undecided"}
    IN IF found = {} THEN open ELSE Ahead(CHOOSE k \in found : \A m \in found : k <= m)
NextUndecided == Act /\ open # None /\ viewer # <<>> /\ GoTo(FirstUndecided)

-----------------------------------------------------------------------------
(* Decisions.                                                              *)

\* chooseAndAdvance.  "enhanced" looks at the detail that is loaded.
Choose(choice) ==
    /\ Act /\ open # None
    /\ choice = "enhanced" => detail.photo \in Rendered
    /\ net' = Append(net, Post([p \in {open} |-> [choice |-> choice]], "advance", Following))
    /\ calm' = (calm /\ ~Saving)
    /\ UNCHANGED <<row, panel, copies, viewer, open, judged>>

\* mutate: what is sent is the opposite of what is loaded.
ToggleKeep ==
    /\ Act /\ open # None
    /\ net' = Append(net, Post([p \in {open} |-> [keep |-> ~detail.row.keep]], "reload", open))
    /\ UNCHANGED <<row, panel, copies, viewer, open, calm, judged>>

\* decideAll, decideCluster: one request for all of them.
Bulk ==
    /\ Act /\ open = None /\ ~Busy /\ Items # <<>>
    /\ \E choice \in EXPORT_CHOICES :
          net' = Append(net, Post([p \in Photo |-> [choice |-> choice]], "refresh", None))
    /\ UNCHANGED <<row, panel, copies, viewer, open, calm, judged>>

\* Compare, keep only this one: a request for each photo, refreshed after all.
KeepOnly(kept) ==
    /\ Act /\ open = None /\ ~Busy /\ grid # NoGrid
    /\ net' = net \o [i \in 1..Cardinality(Photo \ Applied) |->
          LET p == SetToSeq(Photo \ Applied)[i]
          IN Post([q \in {p} |-> [choice |-> IF p = kept THEN "enhanced" ELSE "discard"]],
                  "group", None)]
    /\ UNCHANGED <<row, panel, copies, viewer, open, calm, judged>>

-----------------------------------------------------------------------------
(* The server and the network.  Requests are served and answered in any    *)
(* order.                                                                  *)

\* An exported row is locked.
Changed(p, change) ==
    IF p \in DOMAIN change \ Applied
    THEN [f \in DOMAIN row[p] |-> IF f \in DOMAIN change[p] THEN change[p][f] ELSE row[p][f]]
    ELSE row[p]

Serve(i) ==
    LET r == net[i]
    IN /\ ~r.served
       /\ row' = IF r.kind = "post" THEN [p \in Photo |-> Changed(p, r.change)] ELSE row
       /\ net' = [net EXCEPT ![i].served = TRUE, ![i].answer =
                    CASE r.kind = "queue" -> row [] r.kind = "pending" -> Pending(row)
                      [] r.kind = "detail" /\ r.photo # None -> row[r.photo] [] OTHER -> <<>>]
       /\ UNCHANGED <<panel, copies, viewer, open, acts, calm, judged>>

\* setData
Shown(r) ==
    /\ grid' = IF r.kind = "queue" THEN [by |-> r.by, rows |-> r.answer] ELSE grid
    /\ pending' = IF r.kind = "pending" THEN r.answer ELSE pending
    /\ detail' = IF r.kind = "detail" /\ r.photo # None
                 THEN [photo |-> r.photo, row |-> r.answer] ELSE detail

\* refetch, with the sort the saved request had.
Reread(r) == [Read(r.next, "reread") EXCEPT !.by = r.by]

\* What follows the answer of request i.
Others(i) == {j \in DOMAIN net : j # i /\ net[j].then = "group"}
FollowUp(i) ==
    LET r == net[i]
    IN CASE r.then = "reload"  -> <<Reread(r)>>
         [] r.then = "advance" -> Refresh(r.by)
                \o (IF r.next \in {None, open} THEN <<>> ELSE <<Read(r.next, "nothing")>>)
         [] r.then \in {"refresh", "reread"} -> Refresh(r.by)
         [] r.then = "group" /\ Others(i) = {} -> Refresh(r.by)
         [] OTHER -> <<>>

Overtakes(i) == \E j \in 1..(i - 1) : net[j].kind = net[i].kind /\ net[i].kind # "post"

Arrive(i) ==
    LET r == net[i]
        leaves == r.then = "advance" /\ r.next # None
    IN /\ r.served
       /\ Shown(r)
       /\ net' = RemoveAt(net, i) \o FollowUp(i)
       /\ open' = IF leaves THEN r.next ELSE open
       /\ calm' = (calm /\ ~Overtakes(i) /\ ~(leaves /\ Reloading))
       /\ judged' = judged \o (IF leaves THEN SetToSeq(DOMAIN r.change) ELSE <<>>)
       /\ UNCHANGED <<row, panel, viewer, acts>>

\* The request or its answer is lost; a group is then given up as a whole.
Lost(i) ==
    LET r == net[i]
        left == IF r.then = "group"
                THEN [j \in DOMAIN net |-> IF net[j].then = "group"
                                           THEN [net[j] EXCEPT !.then = "nothing"] ELSE net[j]]
                ELSE net
    IN /\ net' = RemoveAt(left, i) \o (IF r.then = "reread" THEN Refresh(r.by) ELSE <<>>)
       /\ calm' = (calm /\ r.kind = "post" /\ ~r.served /\ r.then # "group")
       /\ UNCHANGED <<row, panel, copies, viewer, open, acts, judged>>

Next ==
    \/ SetSort \/ SetFilter \/ CloseViewer \/ Walk \/ NextUndecided
    \/ ToggleKeep \/ Bulk
    \/ \E p \in Photo : OpenPhoto(p) \/ KeepOnly(p)
    \/ \E choice \in EXPORT_CHOICES : Choose(choice)
    \/ \E i \in DOMAIN net : Serve(i) \/ Arrive(i) \/ Lost(i)

Spec == Init /\ [][Next]_vars

-----------------------------------------------------------------------------
(* Properties.                                                             *)

\* When every request has been answered, and none crossed another on the way,
\* the page shows what the server has: the grid in the order chosen, the count
\* of the Export button, and in the viewer the photo it stands at with its
\* decision (but for a list of one photo, which is not read again).
Settled ==
    calm /\ net = <<>> =>
        /\ grid = [by |-> sort, rows |-> row]
        /\ pending = Pending(row)
        /\ Len(viewer) > 1 => detail = [photo |-> open, row |-> row[open]]

\* "deciding a photo (which may drop it from the active filter) never shifts
\* the list out from under" (review.js:657): choice after choice, each once
\* the last is saved, the viewer stands at no photo that has been judged while
\* one of its list has not.
NoneTwice ==
    calm /\ Len(judged) < Len(viewer) => open \notin ToSet(judged)

\* "." goes by no photo of the list that is still undecided, and says that
\* none is left only when that is so, however old the grid it looks at.
NothingSkipped ==
    [][NextUndecided =>
          \A k \in 1..Len(viewer) :
              row[Ahead(k)].choice = "undecided" =>
                  \E m \in 1..k : open' = Ahead(m)]_vars

\* "No-op when there's no enhanced render (non-RAW / enhance-failed), matching
\* the disabled button" (review.js:298): what the key e sends is about a photo
\* with a render.
EnhancedHasRender ==
    \A i \in DOMAIN net : net[i].then = "advance" =>
        \A p \in DOMAIN net[i].change :
            net[i].change[p].choice = "enhanced" => p \in Rendered
=============================================================================
