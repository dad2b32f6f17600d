---------------------------- MODULE ConnectIface ----------------------------
(***************************************************************************)
(* evweb-connect-iface.c: the table of callbacks an application registers  *)
(* with the server, and the request handler that runs a request through it *)
(* until one of them keeps it.                                             *)
(*                                                                         *)
(* The table is an array that grows by realloc.  Its memory is modelled as *)
(* far as its use can go wrong: cells that no one has written, a table     *)
(* that could not be grown, and a pointer into one that has moved.         *)
(***************************************************************************)
EXTENDS Naturals, Sequences

CONSTANTS
  InitialMax,  \* cells of a new table (8 in the code)
  MaxCount,    \* bound: callbacks registered in one table
  MaxServed,   \* bound: requests served
  Paths,       \* paths of requests
  Routes,      \* methods and resources of the routers that are registered
  Reentrant    \* TRUE: callbacks register further callbacks

ASSUME SizeAssumption ==
  InitialMax \in Nat \ {0} /\ MaxCount \in Nat /\ MaxServed \in Nat
ASSUME RoutesAssumption == Routes \subseteq {"GET", "HEAD", "POST"} \X Paths
ASSUME PathsAssumption ==
  {"NULL", "uninitialised", "directory", "no path"} \intersect Paths = {}
ASSUME ReentrantAssumption == Reentrant \in BOOLEAN

VARIABLES
  table,    \* the evweb_connect_iface
  serving,  \* the request in request_handler, or the last one
  served,   \* history: requests taken so far
  fds,      \* file descriptors that are open between two requests
  failed,   \* history: an allocation for the table failed
  moved,    \* history: a callback made the table move
  misfreed, \* history: free was given an uninitialised pointer
  crashed   \* memory outside the table was used, or NULL: anything follows

vars == <<table, serving, served, fds, failed, moved, misfreed, crashed>>

Methods == {"GET", "HEAD", "POST"}
NoPath == "no path"
NULL == "NULL"
Junk == "uninitialised"

-----------------------------------------------------------------------------
(***************************************************************************)
(* The table.                                                              *)
(***************************************************************************)

Cell == [type : {NULL, Junk, "general", "router", "static"},
         method : Methods \union {NULL, Junk},
         resource : Paths \union {NULL, Junk, "directory"}]

CellOf(v) == [type |-> v, method |-> v, resource |-> v]

\* cells is <<>> when the pointer is NULL; block tells an array from the one
\* that realloc moved it to.
Table == [count : Nat, max : Nat, cells : Seq(Cell), block : Nat]

\* After evweb_destroy_connect_iface.
NoTable == [count |-> 0, max |-> 0, cells |-> <<>>, block |-> 0]

\* Mutant: the cells are malloc'ed.
InitTableUncleared ==
  [NoTable EXCEPT !.max = InitialMax,
                  !.cells = [j \in 1..InitialMax |-> CellOf(Junk)]]

\* evweb_init_connect_iface: the cells are calloc'ed.
InitTable ==
  [NoTable EXCEPT !.max = InitialMax,
                  !.cells = [j \in 1..InitialMax |-> CellOf(NULL)]]

\* Mutant: the table is grown one registration too late.
MustGrowLate(t) == t.count + 1 > t.max + 1

\* The next cell is beyond the end of the array.
MustGrow(t) == t.count + 1 > t.max

(***************************************************************************)
(* The outcomes of next_unused_cb.  realloc keeps the cells and leaves the *)
(* new ones as they come; it may move the array; when it fails the table   *)
(* has lost it.  count grows whatever happens.                             *)
(***************************************************************************)
NextUnused(t) ==
  LET u == [t EXCEPT !.count = @ + 1]
      v == [u EXCEPT !.max = 2 * @]
  IN  IF ~MustGrow(t) THEN {u}
      ELSE { [v EXCEPT !.cells = @ \o [j \in 1..(2 * t.max - Len(@)) |-> CellOf(Junk)],
                       !.block = b] : b \in {t.block, t.block + 1} }
           \union {[v EXCEPT !.cells = <<>>]}

\* next_unused_cb returned NULL.
Lost(t, u) == MustGrow(t) /\ u.cells = <<>>

\* All cells in use are in the array.
Valid(u) == u.count <= Len(u.cells)

\* The library is not at work on a request.
Outside == ~crashed /\ ~misfreed /\ serving.outcome # "pending"

(***************************************************************************)
(* What a registration makes of the cell it takes.  bad: the copy of the   *)
(* resource could not be allocated; the cell stays all the same.           *)
(***************************************************************************)

\* evweb_connect_add_function sets neither method nor resource.
General == [cell \in Cell |-> [cell EXCEPT !.type = "general"]]

Router(m, p, bad) ==
  [cell \in Cell |-> [cell EXCEPT !.type = "router", !.method = m,
                                  !.resource = IF bad THEN NULL ELSE p]]

\* evweb_connect_add_static sets no method.
Directory(bad) ==
  [cell \in Cell |-> [cell EXCEPT !.type = "static",
                                  !.resource = IF bad THEN NULL ELSE "directory"]]

\* The application registers nothing in a table that it has destroyed.
Register(filled, bad) ==
  /\ Outside
  /\ table.max > 0
  /\ table.count < MaxCount
  /\ \E u \in NextUnused(table) :
       \/ /\ Lost(table, u)
          /\ table' = u
          /\ failed' = TRUE
          /\ UNCHANGED crashed
       \/ /\ ~Lost(table, u) /\ Valid(u)
          /\ table' = [u EXCEPT !.cells[u.count] = filled[@]]
          /\ failed' = (failed \/ bad)
          /\ UNCHANGED crashed
       \/ /\ ~Lost(table, u) /\ ~Valid(u)
          /\ table' = u
          /\ crashed' = TRUE
          /\ UNCHANGED failed
  /\ UNCHANGED <<serving, served, fds, moved, misfreed>>

AddFunction == Register(General, FALSE)

AddRouter(m, p) == \E bad \in BOOLEAN : Register(Router(m, p, bad), bad)

AddStatic == \E bad \in BOOLEAN : Register(Directory(bad), bad)

(***************************************************************************)
(* evweb_destroy_connect_iface frees the resource of every cell in use.    *)
(***************************************************************************)
Destroy ==
  /\ Outside
  /\ table.max > 0
  /\ IF Valid(table)
     THEN /\ misfreed' = (misfreed \/ \E j \in 1..table.count : table.cells[j].resource = Junk)
          /\ UNCHANGED crashed
     ELSE /\ crashed' = TRUE
          /\ UNCHANGED misfreed
  /\ table' = NoTable
  /\ UNCHANGED <<serving, served, fds, failed, moved>>

\* evweb_init_connect_iface does not look at what calloc returned.
InitIface ==
  /\ Outside
  /\ table.max = 0
  /\ \/ table' = InitTable /\ UNCHANGED failed
     \/ table' = [InitTable EXCEPT !.cells = <<>>] /\ failed' = TRUE
  /\ UNCHANGED <<serving, served, fds, moved, misfreed, crashed>>

-----------------------------------------------------------------------------
(***************************************************************************)
(* request_handler.  serving.i callbacks are done with; called are those   *)
(* that were given the request.                                            *)
(***************************************************************************)
Outcome == {"pending", "no path", "kept", "file", "head", "unreadable", "not found"}

Serving == [method : Methods, path : Paths \union {NoPath}, i : Nat, block : Nat,
            called : Seq(Nat), outcome : Outcome]

NoServing == [method |-> "GET", path |-> NoPath, i |-> 0, block |-> 0,
              called |-> <<>>, outcome |-> "no path"]

TypeOK ==
  /\ table \in Table
  /\ serving \in Serving
  /\ served \in [Methods -> Nat]
  /\ fds \in Nat
  /\ {failed, moved, misfreed, crashed} \subseteq BOOLEAN

Init ==
  /\ table = InitTable
  /\ serving = NoServing
  /\ served = [m \in Methods |-> 0]
  /\ fds = 0
  /\ failed = FALSE
  /\ moved = FALSE
  /\ misfreed = FALSE
  /\ crashed = FALSE

\* A request whose URL has no path is left as it is.
Request(m, p) ==
  /\ Outside
  /\ served["GET"] + served["HEAD"] + served["POST"] < MaxServed
  /\ served' = [served EXCEPT ![m] = @ + 1]
  /\ serving' = [NoServing EXCEPT
                   !.method = m, !.path = p, !.block = table.block,
                   !.outcome = IF p = NoPath THEN "no path" ELSE "pending"]
  /\ UNCHANGED <<table, fds, failed, moved, misfreed, crashed>>

Chain == ~crashed /\ serving.outcome = "pending"

\* Mutant: the loop stops one callback early.
StopsEarly == serving.i + 1 >= table.count

\* The loop has been through the table, whose size it reads anew.
AtEnd == serving.i >= table.count

Here == serving.i + 1
NextCell == table.cells[Here]

\* The next cell can be read.
Reading == Chain /\ ~AtEnd /\ Here <= Len(table.cells)

\* The fields that decide about this cell are there.
Sound ==
  /\ NextCell.type # Junk
  /\ NextCell.type = "router" /\ NextCell.method = serving.method => NextCell.resource \in Paths
  /\ NextCell.type = "static" /\ serving.method # "POST" => NextCell.resource = "directory"

Crash ==
  /\ Chain /\ ~AtEnd
  /\ Here <= Len(table.cells) => ~Sound
  /\ crashed' = TRUE
  /\ UNCHANGED <<table, serving, served, fds, failed, moved, misfreed>>

\* The router's method is the request's, and its resource the whole path.
Matches == NextCell.method = serving.method /\ NextCell.resource = serving.path

Serves == serving.method \in {"GET", "HEAD"}

AsksApplication ==
  \/ NextCell.type = "general"
  \/ NextCell.type = "router" /\ Matches

Skip ==
  /\ Reading /\ Sound
  /\ ~AsksApplication
  /\ ~(NextCell.type = "static" /\ Serves)
  /\ serving' = [serving EXCEPT !.i = @ + 1]
  /\ UNCHANGED <<table, served, fds, failed, moved, misfreed, crashed>>

\* This cell's callback is done with the request; o is what became of it.
Pass(o) ==
  serving' = [serving EXCEPT !.i = @ + 1, !.called = Append(@, Here),
                             !.outcome = o]

(***************************************************************************)
(* An application's callback keeps the request or passes it on.            *)
(* It may register a callback, which the loop goes on to: the array that   *)
(* the loop's cursor points into may have moved.  (That registration does  *)
(* not fail here.)  A general callback's cell is read again when it has    *)
(* returned, a router's only if it passes the request on.                  *)
(***************************************************************************)
CallApplication ==
  /\ Reading /\ Sound
  /\ AsksApplication
  /\ \/ UNCHANGED table
     \/ /\ Reentrant
        /\ table.count < MaxCount
        /\ \E u \in NextUnused(table) :
             /\ ~Lost(table, u) /\ Valid(u)
             /\ table' = [u EXCEPT !.cells[u.count] = General[@]]
  /\ moved' = (moved \/ table'.block # serving.block)
  /\ \E next \in BOOLEAN :
       /\ Pass(IF next THEN "pending" ELSE "kept")
       /\ crashed' = (table'.block # serving.block
                        /\ (NextCell.type = "general" \/ next))
  /\ UNCHANGED <<served, fds, failed, misfreed>>

-----------------------------------------------------------------------------
(***************************************************************************)
(* serve_static_file.                                                      *)
(***************************************************************************)
Static == Reading /\ Sound /\ NextCell.type = "static" /\ Serves

\* There is no such file: the request is passed on.
FileMissing ==
  /\ Static
  /\ Pass("pending")
  /\ UNCHANGED <<table, served, fds, failed, moved, misfreed, crashed>>

\* Mutant: the request is passed on although it was answered.
FileHeadPassesOn ==
  /\ Static
  /\ serving.method = "HEAD"
  /\ Pass("pending")
  /\ fds' = fds + 1
  /\ UNCHANGED <<table, served, failed, moved, misfreed, crashed>>

\* HEAD: the response is sent, not ended, and the file stays open.
FileHead ==
  /\ Static
  /\ serving.method = "HEAD"
  /\ Pass("head")
  /\ fds' = fds + 1
  /\ UNCHANGED <<table, served, failed, moved, misfreed, crashed>>

\* Mutants: the error path forgets the descriptor, or closes it twice.
FileUnreadableKeepsOpen ==
  /\ Static
  /\ serving.method = "GET"
  /\ Pass("unreadable")
  /\ fds' = fds + 1
  /\ UNCHANGED <<table, served, failed, moved, misfreed, crashed>>

FileUnreadableClosesTwice ==
  /\ Static
  /\ serving.method = "GET"
  /\ Pass("unreadable")
  /\ fds' = fds - 1
  /\ UNCHANGED <<table, served, failed, moved, misfreed, crashed>>

\* The file could not be read as long as fstat said: a status is set, and
\* nothing is sent.
FileUnreadable ==
  /\ Static
  /\ serving.method = "GET"
  /\ Pass("unreadable")
  /\ UNCHANGED <<table, served, fds, failed, moved, misfreed, crashed>>

FileServed ==
  /\ Static
  /\ serving.method = "GET"
  /\ Pass("file")
  /\ UNCHANGED <<table, served, fds, failed, moved, misfreed, crashed>>

\* All callbacks passed the request on: 404.
NotFound ==
  /\ Chain /\ AtEnd
  /\ serving' = [serving EXCEPT !.outcome = "not found"]
  /\ UNCHANGED <<table, served, fds, failed, moved, misfreed, crashed>>

-----------------------------------------------------------------------------
Next ==
  \/ AddFunction \/ AddStatic \/ \E r \in Routes : AddRouter(r[1], r[2])
  \/ Destroy \/ InitIface
  \/ \E m \in Methods, p \in Paths \union {NoPath} : Request(m, p)
  \/ Crash \/ Skip \/ CallApplication
  \/ FileMissing \/ FileHead \/ FileUnreadable \/ FileServed \/ NotFound

Spec == Init /\ [][Next]_vars
-----------------------------------------------------------------------------
(***************************************************************************)
(* Properties.                                                             *)
(***************************************************************************)

\* Registering, growing the table and running requests through it never use
\* memory outside it, unless an allocation failed (which init does not say,
\* and after which the table is in pieces) or a callback made it move.
TableSound == crashed => failed \/ moved

\* What a callback in the table is asked for, by what was registered.
Wants(cell) ==
  CASE cell.type = "general" -> TRUE
    [] cell.type = "router"  -> cell.method = serving.method /\ cell.resource = serving.path
    [] cell.type = "static"  -> serving.method # "POST"
    [] OTHER                 -> FALSE

\* The places of the callbacks that want the request, among the first i.
Wanting(i) == {j \in 1..i : Wants(table.cells[j])}

\* The callbacks are tried in the order of their registration, each one that
\* wants the request once and no other, and 404 is sent only when all of them,
\* those registered meanwhile included, have passed it on.
ChainOrder ==
  [][serving.outcome = "pending" /\ serving' # serving /\ ~crashed' =>
       /\ {serving'.called[k] : k \in 1..Len(serving'.called)} = Wanting(serving'.i)
       /\ \A k \in 1..Len(serving'.called) : \A l \in 1..k - 1 :
            serving'.called[l] < serving'.called[k]
       /\ serving'.outcome = "not found" => serving'.i = table.count]_vars

\* A file is closed when its request is done: what stays open are files that
\* were asked for with HEAD, one for each such request at most.
DescriptorsClosed == fds <= served["HEAD"]

\* Destroying a table frees nothing but resources that were set, or pointers
\* that calloc cleared: only in a table that has grown are there cells of
\* general callbacks that neither is true of (realloc does not clear).
FreesSetOrCleared ==
  [][misfreed' /\ ~misfreed => table.count > InitialMax]_vars
=============================================================================
