--------------------------- MODULE NotionAdapters ---------------------------
(***************************************************************************)
(* The adapters of integrations/notion: the fixture adapter over its own   *)
(* memory, the API adapter and the browser adapter over one workspace, the *)
(* combined adapter that routes an operation to one of the two, and the    *)
(* router that selects an adapter.                                         *)
(*                                                                         *)
(* A caller makes one call at a time.  A call of the fixture is atomic.  A *)
(* request of the API or a step of the browser may raise before or after   *)
(* its effect, and a person uses the same workspace meanwhile.  The        *)
(* combined adapter takes any two adapters: the package's own, or ones     *)
(* that perform every operation in one request (delegates = "any").        *)
(***************************************************************************)
EXTENDS Naturals, Sequences

CONSTANTS
  Used,            \* the operations the caller makes
  MaxObjects,      \* bound: pages, properties, blocks and views of a space
  MaxCalls,        \* bound: calls
  MaxPersonEdits   \* bound: edits by the person

VARIABLES
  selected,        \* the adapter the router holds, or "none"
  memory,          \* the objects of the fixture adapter
  workspace,       \* the objects of the Notion workspace
  delegates,       \* "own" or "any": the adapters under the combined one
  call,            \* the call under way, or the last one
  anonymous,       \* anonymous browser sessions that are open
  calls, person_edits

adapterVars == <<selected, memory, workspace, delegates, call, anonymous, calls, person_edits>>
-----------------------------------------------------------------------------
(* Operations.                                                             *)

ApiOperations ==
  {"connection_status", "workspace_discovery", "create_page", "drop_page_property", "rename_page",
   "move_page", "set_icon", "set_cover", "add_text_block", "add_callout_block", "create_database",
   "add_property", "create_relation", "create_rollup", "add_filter", "add_sort", "add_child_page",
   "inspect_page", "inspect_database"}

BrowserOperations ==
  {"duplicate_page", "create_formula", "create_linked_view", "create_calendar_view", "create_table_view",
   "create_board_view", "set_view_title_visibility", "publish_page", "set_duplicate_as_template",
   "set_search_indexing", "unpublish_page", "verify_stranger_access"}

NonIdempotent ==
  {"add_callout_block", "add_child_page", "add_text_block", "create_board_view", "create_calendar_view",
   "create_database", "create_linked_view", "create_page", "create_table_view", "duplicate_page"}

\* reports_unsupported: the package's adapters report each other's operations.
Reports(adapter, op) ==
  \/ adapter = "api" /\ op \in BrowserOperations
  \/ adapter = "browser" /\ op \in ApiOperations

\* The operations whose method only raises NotImplementedError.
Unimplemented(adapter, op) == Reports(adapter, op) \/ (adapter = "api" /\ op = "drop_page_property")

\* The methods of the combined adapter that delegate under their own name.
Delegated == ApiOperations \cup BrowserOperations

ASSUME AdaptersAssumption == Used \subseteq Delegated \cup {"get_public_url"}

Preferred(op) == IF op \in BrowserOperations THEN "browser" ELSE "api"
Other(adapter) == IF adapter = "api" THEN "browser" ELSE "api"
-----------------------------------------------------------------------------
(* A space: its pages, the property names of a database, its other objects.*)

Settings == {"published", "template", "indexing"}
NewPage == [settings |-> [name \in Settings |-> FALSE], face |-> "first"]
EmptySpace == [pages |-> <<>>, database |-> FALSE, properties |-> <<>>, others |-> 0, titles |-> TRUE]
UsedSpace == [EmptySpace EXCEPT !.pages = <<NewPage>>, !.database = TRUE]
Room(s) == Len(s.pages) < MaxObjects /\ Len(s.properties) < MaxObjects /\ s.others < MaxObjects

PageWriters == {"rename_page", "move_page", "set_icon", "set_cover", "drop_page_property"}
PropertyWriters == {"add_property", "create_relation", "create_rollup", "create_formula"}
Toggles == {"publish_page", "unpublish_page", "set_duplicate_as_template", "set_search_indexing",
            "set_view_title_visibility"}
SettingName(op) ==
  IF op = "set_duplicate_as_template" THEN "template"
  ELSE IF op = "set_search_indexing" THEN "indexing" ELSE "published"

Blocks == {"add_text_block", "add_callout_block"}
Views == {"create_table_view", "create_calendar_view", "create_board_view", "create_linked_view"}
OnDatabase == PropertyWriters \cup Views \cup
  {"add_filter", "add_sort", "inspect_database", "set_view_title_visibility"}
OnNothing == {"connection_status", "workspace_discovery", "create_page", "create_database",
              "verify_stranger_access"}

\* The object an operation names is there.
Known(s, op, p) == op \in OnNothing \/ (IF op \in OnDatabase THEN s.database ELSE p <= Len(s.pages))

Upsert(names, n) == IF \E i \in 1 .. Len(names) : names[i] = n THEN names ELSE Append(names, n)

\* A copy is unpublished and keeps the other settings.
CopyOf(page) == [page EXCEPT !.settings["published"] = FALSE]

\* The setting an operation reads and writes, on the page p or the view.
Setting(s, op, p) == IF op = "set_view_title_visibility" THEN s.titles ELSE s.pages[p].settings[SettingName(op)]
WithSetting(s, op, p, on) ==
  IF op = "set_view_title_visibility" THEN [s EXCEPT !.titles = on]
  ELSE [s EXCEPT !.pages[p].settings[SettingName(op)] = on]

Published(s, p) == s.pages[p].settings["published"]

\* What the families of operations leave behind in a space.
WithPage(s) == [s EXCEPT !.pages = Append(@, NewPage)]
WithCopy(s, p) == [s EXCEPT !.pages = Append(@, CopyOf(s.pages[p]))]
WithFace(s, p) == [s EXCEPT !.pages[p].face = "second"]
WithDatabase(s) == [s EXCEPT !.database = TRUE, !.others = @ + 1]
WithBlock(s) == [s EXCEPT !.others = @ + 1]
WithView(s) == [s EXCEPT !.others = @ + 1]

\* The API writes a property by name; the fixture and the formula editor
\* append one, only add_property of the fixture looks for the name.
WithProperty(adapter, s, op) ==
  [s EXCEPT !.properties = IF op = "add_property" \/ adapter = "api" THEN Upsert(@, op) ELSE Append(@, op)]

\* What one execution of an operation does to a space.
Executed(adapter, s, op, p, on) ==
  IF op \in {"create_page", "add_child_page"} THEN WithPage(s)
  ELSE IF op = "duplicate_page" THEN WithCopy(s, p)
  ELSE IF op \in PageWriters THEN WithFace(s, p)
  ELSE IF op \in PropertyWriters THEN WithProperty(adapter, s, op)
  ELSE IF op = "create_database" THEN WithDatabase(s)
  ELSE IF op \in Blocks THEN WithBlock(s)
  ELSE IF op \in Views THEN WithView(s)
  ELSE IF op \in Toggles THEN WithSetting(s, op, p, on)
  ELSE s
-----------------------------------------------------------------------------
(* Calls.  made counts the executions of the call, edited tells whether    *)
(* the person changed a setting since it began.                            *)

NoCall == [op |-> "none", result |-> "none"]

\* publish and unpublish carry their own value.
Value(op, on) == IF op = "publish_page" THEN TRUE ELSE IF op = "unpublish_page" THEN FALSE ELSE on

Began(op, adapter, p, on) ==
  [op |-> op, adapter |-> adapter, page |-> p, on |-> Value(op, on), seen |-> FALSE,
   step |-> "start", made |-> 0, fell |-> FALSE, edited |-> FALSE, result |-> "running"]

Underway(step) == call.result = "running" /\ call.step = step
CallEnds(c, result) == call' = [c EXCEPT !.result = result]

\* The router: fixture and api only; a mode it refuses leaves the adapter.
\* Selecting the fixture again gives a new, empty one.
SetAdapterMode(mode) ==
  /\ call.result # "running"
  /\ selected' = mode
  /\ memory' = IF mode = "fixture" THEN EmptySpace ELSE memory
  /\ UNCHANGED <<delegates, workspace, call, anonymous, calls, person_edits>>

GetAdapter ==
  /\ selected = "none" /\ selected' = "fixture" /\ memory' = EmptySpace
  /\ UNCHANGED <<delegates, workspace, call, anonymous, calls, person_edits>>

\* A call through the fixture is over at once; it raises for an unknown object.
CallFixture(op) ==
  /\ selected = "fixture" /\ call.result # "running" /\ calls < MaxCalls /\ Room(memory)
  /\ \E p \in 1 .. MaxObjects, on \in BOOLEAN :
       LET c == Began(op, "fixture", p, on) IN
       IF Known(memory, op, p)
       THEN /\ memory' = Executed("fixture", memory, op, p, c.on)
            /\ call' = [c EXCEPT !.made = 1, !.result = "returned"]
       ELSE memory' = memory /\ call' = [c EXCEPT !.result = "raised"]
  /\ calls' = calls + 1
  /\ UNCHANGED <<delegates, selected, workspace, anonymous, person_edits>>

\* CombinedNotionAdapter._delegate: a delegate that reports the operation as
\* unsupported is passed over before anything is called.
CallCombined(op) ==
  /\ op \in Delegated \cup {"get_public_url"}
  /\ call.result # "running" /\ calls < MaxCalls /\ Room(workspace)
  /\ \E p \in 1 .. Len(workspace.pages), on \in BOOLEAN :
       \E skip \in IF delegates = "any" THEN BOOLEAN ELSE {Reports(Preferred(op), op)} :
         LET via == IF skip THEN Other(Preferred(op)) ELSE Preferred(op)
         IN  call' = [Began(op, via, p, on) EXCEPT !.fell = skip]
  /\ calls' = calls + 1
  /\ UNCHANGED <<delegates, selected, memory, workspace, anonymous, person_edits>>
-----------------------------------------------------------------------------
(* What a delegate does.                                                   *)

\* A plausible slip: an unsupported write is tried on the other adapter too.
Unsupported_Always(c) ==
  IF c.fell THEN CallEnds(c, "raised")
  ELSE call' = [c EXCEPT !.adapter = Other(@), !.step = "start", !.fell = TRUE]

\* OperationUnsupportedError selects the other adapter, once, and never for a
\* write that is not idempotent.
Unsupported(c) ==
  IF c.fell \/ c.op \in NonIdempotent THEN CallEnds(c, "raised")
  ELSE call' = [c EXCEPT !.adapter = Other(@), !.step = "start", !.fell = TRUE]

Raises(c) == CallEnds(c, "raised") \/ Unsupported(c)

\* A method the adapter does not implement raises before it does anything.
NotImplemented ==
  /\ Underway("start") /\ delegates = "own" /\ Unimplemented(call.adapter, call.op)
  /\ CallEnds(call, "raised")
  /\ UNCHANGED <<delegates, selected, memory, workspace, anonymous, calls, person_edits>>

\* One request: nothing, an effect and an answer, or an effect whose answer is lost.
Request ==
  /\ Underway("start") /\ call.op # "get_public_url"
  /\ delegates = "any" \/ (call.adapter = "api" /\ ~Unimplemented("api", call.op))
  /\ \/ UNCHANGED workspace /\ Raises(call)
     \/ /\ workspace' = Executed("api", workspace, call.op, call.page, call.on)
        /\ LET c == [call EXCEPT !.made = @ + 1] IN CallEnds(c, "returned") \/ Raises(c)
  /\ UNCHANGED <<delegates, selected, memory, anonymous, calls, person_edits>>

\* The browser opens the page and its menu, and reads the setting a toggle needs.
OpenPage ==
  /\ Underway("start") /\ delegates = "own" /\ call.adapter = "browser"
  /\ call.op \in BrowserOperations \ {"verify_stranger_access"}
  /\ \/ Raises(call)
     \/ call' = [call EXCEPT !.step = "click",
                             !.seen = call.op \in Toggles /\ Setting(workspace, call.op, call.page)]
  /\ UNCHANGED <<delegates, selected, memory, workspace, anonymous, calls, person_edits>>

\* A toggle is clicked when the setting that was read differs from the value
\* that is wanted: the click inverts whatever the setting is by now.
ClickMenu ==
  /\ Underway("click")
  /\ workspace' =
       IF call.op \in Toggles
       THEN IF call.seen = call.on THEN workspace
            ELSE WithSetting(workspace, call.op, call.page, ~Setting(workspace, call.op, call.page))
       ELSE Executed("browser", workspace, call.op, call.page, call.on)
  /\ LET c == [call EXCEPT !.made = @ + 1, !.step = "read_back"] IN call' = c \/ Raises(c)
  /\ UNCHANGED <<delegates, selected, memory, anonymous, calls, person_edits>>

\* The id, the URL or the confirmation is read; publish_page waits for the URL.
ReadBack ==
  /\ Underway("read_back")
  /\ \/ /\ call.op = "publish_page" => Published(workspace, call.page)
        /\ CallEnds(call, "returned")
     \/ Raises(call)
  /\ UNCHANGED <<delegates, selected, memory, workspace, anonymous, calls, person_edits>>
-----------------------------------------------------------------------------
(* The public URL: the API tells it, a logged-out session opens it.  Both  *)
(* delegates are called directly, so no error selects the other one.       *)

AskUrl ==
  /\ Underway("start") /\ call.op = "get_public_url"
  /\ \/ CallEnds(call, "raised")
     \/ ~Published(workspace, call.page) /\ CallEnds([call EXCEPT !.seen = FALSE], "returned")
     \/ /\ Published(workspace, call.page)
        /\ call' = [call EXCEPT !.op = "verify_stranger_access", !.adapter = "browser", !.fell = TRUE]
  /\ UNCHANGED <<delegates, selected, memory, workspace, anonymous, calls, person_edits>>

OpenAnonymous ==
  /\ Underway("start") /\ delegates = "own"
  /\ call.op = "verify_stranger_access" /\ call.adapter = "browser"
  /\ \/ Raises(call) /\ UNCHANGED anonymous
     \/ anonymous' = anonymous + 1 /\ call' = [call EXCEPT !.step = "visit"]
  /\ UNCHANGED <<delegates, selected, memory, workspace, calls, person_edits>>

\* The finally clause closes the session on every path.
VisitPage ==
  /\ Underway("visit")
  /\ \/ Raises(call)
     \/ CallEnds([call EXCEPT !.seen = Published(workspace, call.page)], "returned")
  /\ anonymous' = anonymous - 1
  /\ UNCHANGED <<delegates, selected, memory, workspace, calls, person_edits>>

\* Somebody changes a setting of a page in the workspace.
PersonEdits ==
  /\ person_edits < MaxPersonEdits /\ person_edits' = person_edits + 1
  /\ \E p \in 1 .. Len(workspace.pages), name \in Settings :
       workspace' = [workspace EXCEPT !.pages[p].settings[name] = ~@]
  /\ call' = IF call.op = "none" THEN call ELSE [call EXCEPT !.edited = TRUE]
  /\ UNCHANGED <<delegates, selected, memory, anonymous, calls>>

AdaptersInit ==
  /\ selected = "none" /\ memory = EmptySpace /\ workspace = UsedSpace
  /\ delegates \in {"own", "any"} /\ call = NoCall /\ anonymous = 0 /\ calls = 0 /\ person_edits = 0

AdaptersNext ==
  \/ \E mode \in {"fixture", "api"} : SetAdapterMode(mode)
  \/ GetAdapter
  \/ \E op \in Used : CallFixture(op) \/ CallCombined(op)
  \/ NotImplemented \/ Request \/ OpenPage \/ ClickMenu \/ ReadBack
  \/ AskUrl \/ OpenAnonymous \/ VisitPage
  \/ PersonEdits

AdaptersSpec == AdaptersInit /\ [][AdaptersNext]_adapterVars
-----------------------------------------------------------------------------
(* Properties.                                                             *)

\* A write that is not idempotent is executed at most once in a call, whatever
\* the delegates raise and wherever they raise it (CombinedNotionAdapter); and a
\* setting that was returned as set is as asked, unless somebody changed it since
\* the call began: a toggle never undoes what it was asked for, a retry after a
\* click whose answer was lost included (BrowserNotionAdapter).  No anonymous
\* session outlives its call.
WrittenAsAsked ==
  /\ call.op \in NonIdempotent /\ call.result # "none" => call.made <= 1
  /\ call.op \in Toggles /\ call.result = "returned" /\ call.adapter # "fixture" /\ ~call.edited =>
       Setting(workspace, call.op, call.page) = call.on
  /\ call.result # "running" => anonymous = 0
=============================================================================
