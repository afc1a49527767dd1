--------------------------- MODULE AdapterProofs ----------------------------
(***************************************************************************)
(* Proofs about the calls that reach a provider: NotionAdapters leaves the *)
(* workspace as it was asked, BrowserSession never repeats a click.        *)
(* They share no state; each section states the inductive invariant of     *)
(* one of them and derives from it the properties that the runs check on   *)
(* small instances.                                                        *)
(***************************************************************************)
EXTENDS NotionAdapters, BrowserSession, Integers, TLAPS

\* How long, in seconds, a prover may work on a step.
USE SMTT(30), ZenonT(30)

-----------------------------------------------------------------------------
(* NotionAdapters.                                                         *)

\* The records of the model: operations, pages, the space and a call.
Operations == Delegated \cup {"get_public_url"}
Page == [settings : [Settings -> BOOLEAN], face : {"first", "second"}]
Space == [pages : Seq(Page), database : BOOLEAN, properties : Seq(Operations), others : Nat, titles : BOOLEAN]
Call == [op : Operations, adapter : {"fixture", "api", "browser"}, page : Nat, on : BOOLEAN, seen : BOOLEAN,
         step : {"start", "click", "read_back", "visit"}, made : Nat, fell : BOOLEAN, edited : BOOLEAN,
         result : {"running", "returned", "raised"}]

\* A call that runs is about a page that is there, and has not written twice.
Placed(s, c) ==
  /\ c \in Call
  /\ c.adapter # "fixture" /\ c.page \in 1 .. Len(s.pages)
  /\ c.result = "running"
  /\ c.op \in NonIdempotent => c.made <= 1

\* What a toggle saw is still so at the click, and what it clicked at the read.
Follows(s, c) ==
  c.op \in Toggles /\ c.adapter # "fixture" /\ ~ c.edited =>
    /\ c.result = "running" /\ c.step = "click" => c.seen = Setting(s, c.op, c.page)
    /\ c.result = "running" /\ c.step = "read_back" => Setting(s, c.op, c.page) = c.on
    /\ c.result = "returned" => Setting(s, c.op, c.page) = c.on

\* A call and the space it works on.  Nothing is written before the click or the
\* request.
Sound(s, c) ==
  /\ c \in Call
  /\ c.adapter # "fixture" => c.page \in 1 .. Len(s.pages)
  /\ c.result = "running" => c.adapter # "fixture"
  /\ c.op \in NonIdempotent =>
       c.made <= 1 /\ (c.result = "running" /\ c.step \in {"start", "click"} => c.made = 0)
  /\ c.result = "running" /\ c.step = "visit" => c.op = "verify_stranger_access"
  /\ Follows(s, c)

\* The anonymous session is open.
Visiting(c) == c.result = "running" /\ c.step = "visit"

\* The inductive invariant of the adapters.
AdaptersInv ==
  /\ workspace \in Space
  /\ IF call = NoCall THEN anonymous = 0
     ELSE Sound(workspace, call) /\ anonymous = IF Visiting(call) THEN 1 ELSE 0

\* A setting that is written reads as it was written, and nothing else is lost.
LEMMA SettingWritten ==
  ASSUME NEW s \in Space, NEW op \in Toggles, NEW p \in 1 .. Len(s.pages), NEW on \in BOOLEAN
  PROVE  /\ Setting(s, op, p) \in BOOLEAN
         /\ WithSetting(s, op, p, on) \in Space
         /\ Len(WithSetting(s, op, p, on).pages) = Len(s.pages)
         /\ Setting(WithSetting(s, op, p, on), op, p) = on
<1>1. /\ s.pages \in Seq(Page) /\ s.pages[p] \in Page /\ s.titles \in BOOLEAN
      /\ p \in DOMAIN s.pages
  BY DEF Space
<1>2. SettingName(op) \in Settings  BY DEF SettingName, Settings
<1>3. CASE op = "set_view_title_visibility"
  BY <1>1, <1>3 DEF Setting, WithSetting, Space
<1>4. CASE op # "set_view_title_visibility"
  <2> DEFINE page == [s.pages[p] EXCEPT !.settings = [@ EXCEPT ![SettingName(op)] = on]]
             list == [s.pages EXCEPT ![p] = page]
  <2>1. page \in Page /\ page.settings[SettingName(op)] = on  BY <1>1, <1>2, Zenon DEF Page
  <2>2. WithSetting(s, op, p, on) = [s EXCEPT !.pages = list]  BY <1>4 DEF WithSetting
  <2> HIDE DEF page
  <2>3. list \in Seq(Page) /\ Len(list) = Len(s.pages) /\ list[p] = page  BY <1>1, <2>1
  <2> HIDE DEF list
  <2>4. [s EXCEPT !.pages = list] \in Space /\ [s EXCEPT !.pages = list].pages = list
    BY <2>3 DEF Space
  <2>5. Setting(s, op, p) \in BOOLEAN  BY <1>1, <1>2, <1>4 DEF Setting, Page
  <2>6. Setting(WithSetting(s, op, p, on), op, p) = on  BY <1>4, <2>1, <2>2, <2>3, <2>4 DEF Setting
  <2> QED BY <2>2, <2>3, <2>4, <2>5, <2>6
<1> QED BY <1>3, <1>4

\* An operation leaves a space, with no page fewer.
LEMMA ExecutedIs ==
  ASSUME NEW s \in Space, NEW op \in Operations, NEW p \in 1 .. Len(s.pages), NEW on \in BOOLEAN,
         NEW adapter
  PROVE  /\ Executed(adapter, s, op, p, on) \in Space
         /\ Len(Executed(adapter, s, op, p, on).pages) >= Len(s.pages)
         /\ op \in Toggles => Executed(adapter, s, op, p, on) = WithSetting(s, op, p, on)
<1>1. /\ s.pages \in Seq(Page) /\ s.pages[p] \in Page /\ p \in DOMAIN s.pages
      /\ s.properties \in Seq(Operations) /\ s.others \in Nat /\ Len(s.pages) \in Nat
  BY DEF Space
<1>2. NewPage \in Page /\ CopyOf(s.pages[p]) \in Page  BY <1>1, Zenon DEF NewPage, CopyOf, Page, Settings
<1>3. ASSUME NEW page \in Page
      PROVE  /\ [s EXCEPT !.pages = Append(@, page)] \in Space
             /\ Len([s EXCEPT !.pages = Append(@, page)].pages) >= Len(s.pages)
  <2> DEFINE list == Append(s.pages, page)
  <2>1. list \in Seq(Page) /\ Len(list) = Len(s.pages) + 1  BY <1>1
  <2> HIDE DEF list
  <2>2. [s EXCEPT !.pages = list] \in Space /\ [s EXCEPT !.pages = list].pages = list
    BY <2>1 DEF Space
  <2>3. Len([s EXCEPT !.pages = list].pages) >= Len(s.pages)  BY <1>1, <2>1, <2>2
  <2> QED BY <2>2, <2>3 DEF list
<1>4. WithPage(s) \in Space /\ Len(WithPage(s).pages) >= Len(s.pages)  BY <1>2, <1>3 DEF WithPage
<1>5. WithCopy(s, p) \in Space /\ Len(WithCopy(s, p).pages) >= Len(s.pages)
  BY <1>2, <1>3 DEF WithCopy
<1>6. WithFace(s, p) \in Space /\ Len(WithFace(s, p).pages) >= Len(s.pages)
  <2> DEFINE page == [s.pages[p] EXCEPT !.face = "second"]
             list == [s.pages EXCEPT ![p] = page]
  <2>1. page \in Page  BY <1>1 DEF Page
  <2>2. WithFace(s, p) = [s EXCEPT !.pages = list]  BY DEF WithFace
  <2> HIDE DEF page
  <2>3. list \in Seq(Page) /\ Len(list) = Len(s.pages)  BY <1>1, <2>1
  <2> HIDE DEF list
  <2>4. [s EXCEPT !.pages = list] \in Space /\ [s EXCEPT !.pages = list].pages = list
    BY <2>3 DEF Space
  <2> QED BY <1>1, <2>2, <2>3, <2>4
<1>7. WithDatabase(s) \in Space /\ WithDatabase(s).pages = s.pages
  <2> DEFINE based == [s EXCEPT !.database = TRUE]
             more == s.others + 1
  <2>1. based \in Space /\ based.pages = s.pages /\ based.others = s.others  BY Zenon DEF Space
  <2>2. WithDatabase(s) = [based EXCEPT !.others = more]  BY <1>1 DEF WithDatabase, Space
  <2>3. more \in Nat  BY <1>1
  <2> HIDE DEF based, more
  <2>4. [based EXCEPT !.others = more] \in Space /\ [based EXCEPT !.others = more].pages = based.pages
    BY <2>1, <2>3 DEF Space
  <2> QED BY <2>1, <2>2, <2>4
<1>8. WithBlock(s) \in Space /\ WithBlock(s).pages = s.pages  BY <1>1 DEF WithBlock, Space
<1>9. WithView(s) \in Space /\ WithView(s).pages = s.pages  BY <1>1 DEF WithView, Space
<1>10. WithProperty(adapter, s, op) \in Space /\ WithProperty(adapter, s, op).pages = s.pages
  <2>1. Append(s.properties, op) \in Seq(Operations)  BY <1>1
  <2>2. Upsert(s.properties, op) \in Seq(Operations)  BY <1>1, <2>1 DEF Upsert
  <2> QED BY <2>1, <2>2, Zenon DEF WithProperty, Space
<1>11. op \in Toggles => /\ WithSetting(s, op, p, on) \in Space
                         /\ Len(WithSetting(s, op, p, on).pages) = Len(s.pages)
  BY SettingWritten
<1>12. op \in Toggles => Executed(adapter, s, op, p, on) = WithSetting(s, op, p, on)
  BY DEF Executed, Toggles, PageWriters, PropertyWriters, Blocks, Views
<1>13. \/ Executed(adapter, s, op, p, on) = s
       \/ Executed(adapter, s, op, p, on) = WithPage(s)
       \/ Executed(adapter, s, op, p, on) = WithCopy(s, p)
       \/ Executed(adapter, s, op, p, on) = WithFace(s, p)
       \/ Executed(adapter, s, op, p, on) = WithDatabase(s)
       \/ Executed(adapter, s, op, p, on) = WithBlock(s)
       \/ Executed(adapter, s, op, p, on) = WithView(s)
       \/ Executed(adapter, s, op, p, on) = WithProperty(adapter, s, op)
       \/ op \in Toggles /\ Executed(adapter, s, op, p, on) = WithSetting(s, op, p, on)
  BY DEF Executed
<1> QED BY <1>1, <1>4, <1>5, <1>6, <1>7, <1>8, <1>9, <1>10, <1>11, <1>12, <1>13

\* A call that raises ends, or starts again on the other adapter when nothing
\* can have been written twice.
LEMMA RaisesSound ==
  ASSUME NEW s, NEW c, Placed(s, c), Raises(c)
  PROVE  Sound(s, call') /\ ~ Visiting(call') /\ call' # NoCall
<1>1. /\ c \in Call /\ c.adapter # "fixture" /\ c.page \in 1 .. Len(s.pages) /\ c.result = "running"
      /\ c.op \in NonIdempotent => c.made <= 1
  BY DEF Placed
<1>2. call' # NoCall
  <2>1. call'.result # "none"  BY <1>1, Zenon DEF Raises, CallEnds, Unsupported, Call
  <2> QED BY <2>1 DEF NoCall
<1>3. CASE CallEnds(c, "raised")
  <2>1. call' = [c EXCEPT !.result = "raised"]  BY <1>3 DEF CallEnds
  <2>2. /\ call' \in Call /\ call'.op = c.op /\ call'.adapter = c.adapter /\ call'.page = c.page
        /\ call'.made = c.made /\ call'.result = "raised"
    BY <1>1, <2>1 DEF Call
  <2> QED BY <1>1, <1>2, <2>2 DEF Sound, Follows, Visiting
<1>4. CASE /\ c.op \notin NonIdempotent
           /\ call' = [c EXCEPT !.adapter = Other(@), !.step = "start", !.fell = TRUE]
  <2>1. Other(c.adapter) \in {"api", "browser"}  BY DEF Other
  <2>2. /\ call' \in Call /\ call'.op = c.op /\ call'.adapter = Other(c.adapter) /\ call'.page = c.page
        /\ call'.step = "start"
    BY <1>1, <1>4, <2>1, Zenon DEF Call
  <2> QED BY <1>1, <1>2, <1>4, <2>1, <2>2 DEF Sound, Follows, Visiting
<1> QED BY <1>3, <1>4 DEF Raises, Unsupported

\* A call that ends without raising.
LEMMA ReturnsSound ==
  ASSUME NEW s, NEW c, Placed(s, c), CallEnds(c, "returned"),
         c.op \in Toggles /\ ~ c.edited => Setting(s, c.op, c.page) = c.on
  PROVE  Sound(s, call') /\ ~ Visiting(call') /\ call' # NoCall
<1>1. /\ c \in Call /\ c.adapter # "fixture" /\ c.page \in 1 .. Len(s.pages)
      /\ c.op \in NonIdempotent => c.made <= 1
  BY DEF Placed
<1>2. call' = [c EXCEPT !.result = "returned"]  BY DEF CallEnds
<1>3. /\ call' \in Call /\ call'.op = c.op /\ call'.adapter = c.adapter /\ call'.page = c.page
      /\ call'.made = c.made /\ call'.result = "returned" /\ call'.edited = c.edited /\ call'.on = c.on
  BY <1>1, <1>2 DEF Call
<1>4. call' # NoCall  BY <1>3 DEF NoCall
<1> QED BY <1>1, <1>3, <1>4 DEF Sound, Follows, Visiting

\* A call under way is placed; one that has not clicked may still write once.
LEMMA UnderwayIs ==
  ASSUME AdaptersInv, call.result = "running"
  PROVE  /\ workspace \in Space /\ call \in Call /\ call # NoCall
         /\ Placed(workspace, call) /\ Sound(workspace, call)
         /\ anonymous = IF Visiting(call) THEN 1 ELSE 0
<1>1. call # NoCall  BY DEF NoCall
<1>2. workspace \in Space /\ Sound(workspace, call) /\ anonymous = IF Visiting(call) THEN 1 ELSE 0
  BY <1>1 DEF AdaptersInv
<1> QED BY <1>1, <1>2 DEF Sound, Placed

\* The invariant of a state in which a call has just been answered.
LEMMA AnsweredKeeps ==
  ASSUME workspace' \in Space, Sound(workspace', call'), ~ Visiting(call'), call' # NoCall,
         anonymous' = 0
  PROVE  AdaptersInv'
BY Zenon DEF AdaptersInv, Sound, Follows, Setting, SettingName, Visiting, NoCall, Call, Operations

\* No call was made yet.
LEMMA AdaptersInitInv == AdaptersInit => AdaptersInv
<1>1. SUFFICES ASSUME AdaptersInit PROVE AdaptersInv  OBVIOUS
<1>2. NewPage \in Page  BY DEF NewPage, Page, Settings
<1> DEFINE list == <<NewPage>>
<1>3. list \in Seq(Page) /\ << >> \in Seq(Page) /\ << >> \in Seq(Operations)  BY <1>2
<1> HIDE DEF list
<1>4. EmptySpace \in Space  BY <1>3 DEF EmptySpace, Space
<1> DEFINE paged == [EmptySpace EXCEPT !.pages = list]
<1>5. paged \in Space  BY <1>3, <1>4 DEF Space
<1>6. UsedSpace = [paged EXCEPT !.database = TRUE]  BY DEF UsedSpace, list
<1> HIDE DEF paged
<1>7. UsedSpace \in Space  BY <1>5, <1>6, Zenon DEF Space
<1> QED BY <1>1, <1>7 DEF AdaptersInit, AdaptersInv

\* A step that leaves the call and the workspace alone.
LEMMA SameCall ==
  ASSUME AdaptersInv, workspace' = workspace, call' = call, anonymous' = anonymous
  PROVE  AdaptersInv'
BY Zenon DEF AdaptersInv, Sound, Follows, Setting, SettingName, Visiting, NoCall, Call, Operations

\* Between calls no session is open.
LEMMA BetweenCalls ==
  ASSUME AdaptersInv, call.result # "running" PROVE workspace \in Space /\ anonymous = 0
BY DEF AdaptersInv, Visiting

\* The fixture adapter carries out the whole call.
LEMMA CallFixtureKeeps ==
  ASSUME AdaptersInv, NEW op \in Used, CallFixture(op) PROVE AdaptersInv'
<1>1. /\ workspace' = workspace /\ anonymous' = anonymous /\ call.result # "running"
  BY DEF CallFixture
<1>2. PICK p \in 1 .. MaxObjects, on \in BOOLEAN :
        \/ call' = [Began(op, "fixture", p, on) EXCEPT !.made = 1, !.result = "returned"]
        \/ call' = [Began(op, "fixture", p, on) EXCEPT !.result = "raised"]
  BY Zenon DEF CallFixture
<1>3. op \in Operations  BY AdaptersAssumption DEF Operations
<1>4. Value(op, on) \in BOOLEAN /\ p \in Nat
  <2>1. Value(op, on) \in BOOLEAN  BY Zenon DEF Value
  <2>2. p \in Nat  OBVIOUS
  <2> QED BY <2>1, <2>2
<1>5. Began(op, "fixture", p, on) \in Call /\ Began(op, "fixture", p, on).adapter = "fixture"
      /\ Began(op, "fixture", p, on).made = 0
  BY <1>3, <1>4 DEF Began, Call
<1>6. /\ call' \in Call /\ call'.adapter = "fixture" /\ call'.result # "running" /\ call'.made <= 1
      /\ call'.result # "none"
  <2> DEFINE c == Began(op, "fixture", p, on)
  <2>1. c \in Call /\ c.adapter = "fixture" /\ c.made = 0  BY <1>5
  <2> HIDE DEF c
  <2>2. CASE call' = [c EXCEPT !.made = 1, !.result = "returned"]
    <3> DEFINE d == [c EXCEPT !.made = 1]
    <3>1. d \in Call /\ d.adapter = "fixture" /\ d.made = 1  BY <2>1 DEF Call
    <3>2. call' = [d EXCEPT !.result = "returned"]  BY <2>2
    <3> HIDE DEF d
    <3> QED BY <3>1, <3>2 DEF Call
  <2>3. CASE call' = [c EXCEPT !.result = "raised"]  BY <2>1, <2>3 DEF Call
  <2> QED BY <1>2, <2>2, <2>3 DEF c
<1>7. Sound(workspace', call') /\ ~ Visiting(call')  BY <1>6 DEF Sound, Follows, Visiting
<1>8. call' # NoCall  BY <1>6 DEF NoCall
<1> QED BY <1>1, <1>7, <1>8, BetweenCalls, AnsweredKeeps

\* The combined adapter delegates the call, and has done nothing yet.
LEMMA CallCombinedKeeps ==
  ASSUME AdaptersInv, NEW op \in Used, CallCombined(op) PROVE AdaptersInv'
<1>1. /\ workspace' = workspace /\ anonymous' = anonymous /\ call.result # "running"
  BY DEF CallCombined
<1>2. PICK p \in 1 .. Len(workspace.pages), on \in BOOLEAN, skip \in BOOLEAN :
        call' = [Began(op, IF skip THEN Other(Preferred(op)) ELSE Preferred(op), p, on) EXCEPT !.fell = skip]
  BY Zenon DEF CallCombined, Reports
<1> DEFINE via == IF skip THEN Other(Preferred(op)) ELSE Preferred(op)
<1>3. via \in {"api", "browser"}  BY DEF Other, Preferred
<1>4. op \in Operations  BY AdaptersAssumption DEF Operations
<1>5. Value(op, on) \in BOOLEAN /\ p \in Nat
  <2>1. Value(op, on) \in BOOLEAN  BY Zenon DEF Value
  <2>2. p \in Nat  OBVIOUS
  <2> QED BY <2>1, <2>2
<1> HIDE DEF via
<1>6. /\ Began(op, via, p, on) \in Call /\ Began(op, via, p, on).adapter = via
      /\ Began(op, via, p, on).page = p /\ Began(op, via, p, on).made = 0
      /\ Began(op, via, p, on).step = "start" /\ Began(op, via, p, on).result = "running"
  BY <1>3, <1>4, <1>5 DEF Began, Call
<1>7. call' = [Began(op, via, p, on) EXCEPT !.fell = skip]  BY <1>2 DEF via
<1>8. /\ call' \in Call /\ call'.adapter = via /\ call'.page = p /\ call'.made = 0
      /\ call'.step = "start" /\ call'.result = "running"
  BY <1>6, <1>7 DEF Call
<1>9. Sound(workspace', call') /\ ~ Visiting(call')
  BY <1>1, <1>3, <1>8 DEF Sound, Follows, Visiting
<1>10. call' # NoCall  BY <1>8 DEF NoCall
<1> QED BY <1>1, <1>9, <1>10, BetweenCalls, AnsweredKeeps

\* An operation the chosen adapter lacks raises before it writes.
LEMMA NotImplementedKeeps == ASSUME AdaptersInv, NotImplemented PROVE AdaptersInv'
<1>1. /\ workspace' = workspace /\ anonymous' = anonymous /\ CallEnds(call, "raised")
      /\ call.result = "running" /\ call.step = "start"
  BY DEF NotImplemented, Underway
<1>2. /\ workspace \in Space /\ Placed(workspace, call)
      /\ anonymous = IF Visiting(call) THEN 1 ELSE 0
  BY <1>1, UnderwayIs
<1>3. anonymous = 0  BY <1>1, <1>2 DEF Visiting
<1>4. Sound(workspace, call') /\ ~ Visiting(call') /\ call' # NoCall
  BY <1>1, <1>2, RaisesSound DEF Raises
<1> QED BY <1>1, <1>2, <1>3, <1>4, AnsweredKeeps

\* The API adapter writes with one request, or raises.
LEMMA RequestKeeps == ASSUME AdaptersInv, Request PROVE AdaptersInv'
<1>1. anonymous' = anonymous /\ call.result = "running" /\ call.step = "start"
  BY DEF Request, Underway
<1>2. /\ workspace \in Space /\ call \in Call /\ Placed(workspace, call) /\ Sound(workspace, call)
      /\ anonymous = IF Visiting(call) THEN 1 ELSE 0
  BY <1>1, UnderwayIs
<1>3. anonymous' = 0  BY <1>1, <1>2 DEF Visiting
<1>4. CASE workspace' = workspace /\ Raises(call)
  BY <1>2, <1>3, <1>4, RaisesSound, AnsweredKeeps
<1>5. CASE /\ workspace' = Executed("api", workspace, call.op, call.page, call.on)
           /\ LET c == [call EXCEPT !.made = @ + 1] IN CallEnds(c, "returned") \/ Raises(c)
  <2> DEFINE c == [call EXCEPT !.made = @ + 1]
  <2>1. call.op \in Operations /\ call.page \in 1 .. Len(workspace.pages) /\ call.on \in BOOLEAN
    BY <1>2 DEF Placed, Call
  <2>2. /\ workspace' \in Space /\ Len(workspace'.pages) >= Len(workspace.pages)
        /\ call.op \in Toggles => workspace' = WithSetting(workspace, call.op, call.page, call.on)
    BY <1>2, <1>5, <2>1, ExecutedIs
  <2>3. /\ c \in Call /\ c.op = call.op /\ c.adapter = call.adapter /\ c.page = call.page
        /\ c.made = call.made + 1 /\ c.result = "running" /\ c.on = call.on
    BY <1>1, <1>2 DEF Call
  <2> HIDE DEF c
  <2>4. c.op \in NonIdempotent => c.made <= 1  BY <1>1, <1>2, <2>3 DEF Sound
  <2>5. c.page \in 1 .. Len(workspace'.pages)
    <3>1. Len(workspace.pages) \in Nat /\ Len(workspace'.pages) \in Nat  BY <1>2, <2>2 DEF Space
    <3> QED BY <2>1, <2>2, <2>3, <3>1
  <2>6. Placed(workspace', c)  BY <1>2, <2>3, <2>4, <2>5 DEF Placed
  <2>7. c.op \in Toggles => Setting(workspace', c.op, c.page) = c.on
    BY <1>2, <2>1, <2>2, <2>3, SettingWritten
  <2>8. CallEnds(c, "returned") \/ Raises(c)  BY <1>5 DEF c
  <2>9. Sound(workspace', call') /\ ~ Visiting(call') /\ call' # NoCall
    BY <2>6, <2>7, <2>8, ReturnsSound, RaisesSound
  <2> QED BY <1>3, <2>2, <2>9, AnsweredKeeps
<1> QED BY <1>4, <1>5 DEF Request

\* The browser finds the page, or raises before it writes.
LEMMA OpenPageKeeps == ASSUME AdaptersInv, OpenPage PROVE AdaptersInv'
<1>1. /\ anonymous' = anonymous /\ workspace' = workspace
      /\ call.result = "running" /\ call.step = "start"
  BY DEF OpenPage, Underway
<1>2. /\ workspace \in Space /\ call \in Call /\ Placed(workspace, call) /\ Sound(workspace, call)
      /\ anonymous = IF Visiting(call) THEN 1 ELSE 0
  BY <1>1, UnderwayIs
<1>3. anonymous' = 0  BY <1>1, <1>2 DEF Visiting
<1>4. CASE Raises(call)  BY <1>1, <1>2, <1>3, <1>4, RaisesSound, AnsweredKeeps
<1> DEFINE shown == call.op \in Toggles /\ Setting(workspace, call.op, call.page)
<1>5. CASE call' = [call EXCEPT !.step = "click", !.seen = shown]
  <2>1. call.op \in Operations /\ call.page \in 1 .. Len(workspace.pages) /\ call.on \in BOOLEAN
    BY <1>2 DEF Placed, Call
  <2>2. shown \in BOOLEAN  OBVIOUS
  <2>3. call.op \in Toggles => shown = Setting(workspace, call.op, call.page)
    BY <1>2, <2>1, SettingWritten
  <2> HIDE DEF shown
  <2>4. /\ call' \in Call /\ call'.op = call.op /\ call'.adapter = call.adapter /\ call'.page = call.page
        /\ call'.made = call.made /\ call'.result = "running" /\ call'.step = "click" /\ call'.seen = shown
    BY <1>1, <1>2, <1>5, <2>2, Zenon DEF Call
  <2>5. Sound(workspace, call') /\ ~ Visiting(call')
    BY <1>1, <1>2, <2>3, <2>4 DEF Sound, Follows, Visiting
  <2>6. call' # NoCall  BY <2>4 DEF NoCall
  <2> QED BY <1>1, <1>2, <1>3, <2>5, <2>6, AnsweredKeeps
<1> QED BY <1>4, <1>5 DEF OpenPage

\* The click inverts what was seen, unless somebody changed it in between.
LEMMA ClickMenuKeeps == ASSUME AdaptersInv, ClickMenu PROVE AdaptersInv'
<1>1. anonymous' = anonymous /\ call.result = "running" /\ call.step = "click"
  BY DEF ClickMenu, Underway
<1>2. /\ workspace \in Space /\ call \in Call /\ Placed(workspace, call) /\ Sound(workspace, call)
      /\ anonymous = IF Visiting(call) THEN 1 ELSE 0
  BY <1>1, UnderwayIs
<1>3. anonymous' = 0  BY <1>1, <1>2 DEF Visiting
<1> DEFINE d == [call EXCEPT !.made = @ + 1]
           c == [d EXCEPT !.step = "read_back"]
<1>4. call' = c \/ Raises(c)  BY DEF ClickMenu
<1>5. /\ call.op \in Operations /\ call.adapter # "fixture" /\ call.page \in 1 .. Len(workspace.pages)
      /\ call.on \in BOOLEAN /\ call.seen \in BOOLEAN
  BY <1>2 DEF Placed, Call
<1>6. /\ d \in Call /\ d.op = call.op /\ d.adapter = call.adapter /\ d.page = call.page
      /\ d.made = call.made + 1 /\ d.result = "running" /\ d.on = call.on /\ d.edited = call.edited
  BY <1>1, <1>2 DEF Call
<1> HIDE DEF d
<1>7. /\ c \in Call /\ c.op = call.op /\ c.adapter = call.adapter /\ c.page = call.page
      /\ c.made = call.made + 1 /\ c.result = "running" /\ c.on = call.on /\ c.edited = call.edited
      /\ c.step = "read_back"
  BY <1>6 DEF Call
<1> HIDE DEF c
<1>8. c.op \in NonIdempotent => c.made <= 1  BY <1>1, <1>2, <1>7 DEF Sound
<1>9. /\ workspace' \in Space /\ Len(workspace'.pages) >= Len(workspace.pages)
      /\ call.op \in Toggles /\ ~ call.edited => Setting(workspace', call.op, call.page) = call.on
  <2>1. CASE call.op \in Toggles
    <3> DEFINE was == Setting(workspace, call.op, call.page)
    <3>1. was \in BOOLEAN  BY <1>2, <1>5, <2>1, SettingWritten
    <3>2. ~ call.edited => call.seen = was  BY <1>1, <1>2, <1>5, <2>1 DEF Sound, Follows
    <3>3. CASE call.seen = call.on
      <4>1. workspace' = workspace  BY <2>1, <3>3 DEF ClickMenu
      <4>2. Len(workspace.pages) \in Nat  BY <1>2 DEF Space
      <4> QED BY <1>2, <3>2, <3>3, <4>1, <4>2
    <3>4. CASE call.seen # call.on
      <4>1. workspace' = WithSetting(workspace, call.op, call.page, ~ was)
        BY <2>1, <3>4 DEF ClickMenu
      <4> HIDE DEF was
      <4>2. (~ was) \in BOOLEAN  OBVIOUS
      <4>3. /\ workspace' \in Space /\ Len(workspace'.pages) = Len(workspace.pages)
            /\ Setting(workspace', call.op, call.page) = (~ was)
        BY <1>2, <1>5, <2>1, <4>1, <4>2, SettingWritten, ZenonT(30)
      <4>4. Len(workspace.pages) \in Nat  BY <1>2 DEF Space
      <4>5. ~ call.edited => (~ was) = call.on  BY Zenon, <1>5, <3>1, <3>2, <3>4
      <4> QED BY <4>3, <4>4, <4>5
    <3> QED BY <3>3, <3>4
  <2>2. CASE call.op \notin Toggles
    <3>1. workspace' = Executed("browser", workspace, call.op, call.page, call.on)
      BY <2>2 DEF ClickMenu
    <3> QED BY <1>2, <1>5, <2>2, <3>1, ExecutedIs
  <2> QED BY <2>1, <2>2
<1>10. c.page \in 1 .. Len(workspace'.pages)
  <2>1. Len(workspace.pages) \in Nat /\ Len(workspace'.pages) \in Nat  BY <1>2, <1>9 DEF Space
  <2> QED BY <1>5, <1>7, <1>9, <2>1
<1>11. CASE Raises(c)
  <2>1. Placed(workspace', c)  BY <1>5, <1>7, <1>8, <1>10 DEF Placed
  <2> QED BY <1>3, <1>9, <1>11, <2>1, RaisesSound, AnsweredKeeps
<1>12. CASE call' = c
  <2>1. Sound(workspace', c) /\ ~ Visiting(c)
    BY <1>5, <1>7, <1>8, <1>9, <1>10 DEF Sound, Follows, Visiting
  <2>2. c # NoCall  BY <1>7 DEF NoCall
  <2> QED BY <1>3, <1>9, <1>12, <2>1, <2>2, AnsweredKeeps
<1> QED BY <1>4, <1>11, <1>12

\* A setting is reported as it was read back.
LEMMA ReadBackKeeps == ASSUME AdaptersInv, ReadBack PROVE AdaptersInv'
<1>1. /\ anonymous' = anonymous /\ workspace' = workspace
      /\ call.result = "running" /\ call.step = "read_back"
      /\ CallEnds(call, "returned") \/ Raises(call)
  BY DEF ReadBack, Underway
<1>2. /\ workspace \in Space /\ call \in Call /\ Placed(workspace, call) /\ Sound(workspace, call)
      /\ anonymous = IF Visiting(call) THEN 1 ELSE 0
  BY <1>1, UnderwayIs
<1>3. anonymous' = 0  BY <1>1, <1>2 DEF Visiting
<1>4. call.op \in Toggles /\ ~ call.edited => Setting(workspace, call.op, call.page) = call.on
  BY <1>1, <1>2 DEF Sound, Follows, Placed
<1>5. Sound(workspace, call') /\ ~ Visiting(call') /\ call' # NoCall
  BY <1>1, <1>2, <1>4, RaisesSound, ReturnsSound
<1> QED BY <1>1, <1>2, <1>3, <1>5, AnsweredKeeps

\* The public URL is asked for; a visit opens a session of its own.
LEMMA AskUrlKeeps == ASSUME AdaptersInv, AskUrl PROVE AdaptersInv'
<1>1. /\ anonymous' = anonymous /\ workspace' = workspace
      /\ call.result = "running" /\ call.step = "start" /\ call.op = "get_public_url"
  BY DEF AskUrl, Underway
<1>2. /\ workspace \in Space /\ call \in Call /\ Placed(workspace, call)
      /\ anonymous = IF Visiting(call) THEN 1 ELSE 0
  BY <1>1, UnderwayIs
<1>3. anonymous' = 0  BY <1>1, <1>2 DEF Visiting
<1>4. call.op \notin Toggles /\ call.op \notin NonIdempotent  BY <1>1 DEF Toggles, NonIdempotent
<1>5. CASE CallEnds(call, "raised")
  BY <1>1, <1>2, <1>3, <1>5, RaisesSound, AnsweredKeeps DEF Raises
<1>6. CASE CallEnds([call EXCEPT !.seen = FALSE], "returned")
  <2> DEFINE c == [call EXCEPT !.seen = FALSE]
  <2>1. /\ c \in Call /\ c.op = call.op /\ c.adapter = call.adapter /\ c.page = call.page
        /\ c.result = "running"
    BY <1>1, <1>2, Zenon DEF Call
  <2>2. CallEnds(c, "returned")  BY <1>6
  <2> HIDE DEF c
  <2>3. Placed(workspace, c)  BY <1>2, <1>4, <2>1 DEF Placed
  <2>4. c.op \notin Toggles  BY <1>4, <2>1
  <2>5. Sound(workspace, call') /\ ~ Visiting(call') /\ call' # NoCall
    BY <2>2, <2>3, <2>4, ReturnsSound
  <2> QED BY <1>1, <1>2, <1>3, <2>5, AnsweredKeeps
<1>7. CASE call' = [call EXCEPT !.op = "verify_stranger_access", !.adapter = "browser", !.fell = TRUE]
  <2>1. "verify_stranger_access" \in Operations
    BY DEF Operations, Delegated, BrowserOperations
  <2>2. /\ call' \in Call /\ call'.op = "verify_stranger_access" /\ call'.adapter = "browser"
        /\ call'.page = call.page /\ call'.step = "start" /\ call'.result = "running"
    BY <1>1, <1>2, <1>7, <2>1, Zenon DEF Call
  <2>3. call'.op \notin Toggles /\ call'.op \notin NonIdempotent  BY <2>2 DEF Toggles, NonIdempotent
  <2>4. Sound(workspace, call') /\ ~ Visiting(call')
    BY <1>2, <2>2, <2>3 DEF Sound, Follows, Visiting, Placed
  <2>5. call' # NoCall  BY <2>2 DEF NoCall
  <2> QED BY <1>1, <1>2, <1>3, <2>4, <2>5, AnsweredKeeps
<1> QED BY <1>5, <1>6, <1>7 DEF AskUrl

\* The session opens, and is there until the visit ends.
LEMMA OpenAnonymousKeeps == ASSUME AdaptersInv, OpenAnonymous PROVE AdaptersInv'
<1>1. /\ workspace' = workspace
      /\ call.result = "running" /\ call.step = "start" /\ call.op = "verify_stranger_access"
  BY DEF OpenAnonymous, Underway
<1>2. /\ workspace \in Space /\ call \in Call /\ Placed(workspace, call)
      /\ anonymous = IF Visiting(call) THEN 1 ELSE 0
  BY <1>1, UnderwayIs
<1>3. anonymous = 0  BY <1>1, <1>2 DEF Visiting
<1>4. CASE Raises(call) /\ anonymous' = anonymous
  BY <1>1, <1>2, <1>3, <1>4, RaisesSound, AnsweredKeeps
<1>5. CASE anonymous' = anonymous + 1 /\ call' = [call EXCEPT !.step = "visit"]
  <2>1. /\ call' \in Call /\ call'.op = call.op /\ call'.adapter = call.adapter
        /\ call'.page = call.page /\ call'.step = "visit" /\ call'.result = "running"
    BY <1>1, <1>2, <1>5 DEF Call
  <2>2. call'.op \notin Toggles /\ call'.op \notin NonIdempotent
    BY <1>1, <2>1 DEF Toggles, NonIdempotent
  <2>3. Sound(workspace', call') /\ Visiting(call')
    BY <1>1, <1>2, <2>1, <2>2 DEF Sound, Follows, Visiting, Placed
  <2>4. call' # NoCall  BY <2>1 DEF NoCall
  <2>5. anonymous' = 1 /\ workspace' \in Space  BY <1>1, <1>2, <1>3, <1>5
  <2> QED BY <2>3, <2>4, <2>5, Zenon
      DEF AdaptersInv, Sound, Follows, Setting, SettingName, Visiting, NoCall, Call, Operations
<1> QED BY <1>4, <1>5 DEF OpenAnonymous

\* Whatever the visit raises, its session is closed.
LEMMA VisitPageKeeps == ASSUME AdaptersInv, VisitPage PROVE AdaptersInv'
<1>1. /\ workspace' = workspace /\ anonymous' = anonymous - 1
      /\ call.result = "running" /\ call.step = "visit"
  BY DEF VisitPage, Underway
<1>2. /\ workspace \in Space /\ call \in Call /\ Placed(workspace, call) /\ Sound(workspace, call)
      /\ anonymous = IF Visiting(call) THEN 1 ELSE 0
  BY <1>1, UnderwayIs
<1>3. anonymous' = 0  BY <1>1, <1>2 DEF Visiting
<1>4. CASE Raises(call)  BY <1>1, <1>2, <1>3, <1>4, RaisesSound, AnsweredKeeps
<1>5. CASE CallEnds([call EXCEPT !.seen = Published(workspace, call.page)], "returned")
  <2>1. Published(workspace, call.page) \in BOOLEAN
    <3>1. call.page \in 1 .. Len(workspace.pages) /\ workspace.pages \in Seq(Page)
      BY <1>2 DEF Placed, Space
    <3>2. workspace.pages[call.page] \in Page  BY <3>1
    <3> QED BY <3>2 DEF Published, Page, Settings
  <2> DEFINE c == [call EXCEPT !.seen = Published(workspace, call.page)]
  <2>2. /\ c \in Call /\ c.op = call.op /\ c.adapter = call.adapter /\ c.page = call.page
        /\ c.result = "running" /\ c.made = call.made
    BY <1>1, <1>2, <2>1 DEF Call
  <2>3. CallEnds(c, "returned")  BY <1>5
  <2> HIDE DEF c
  <2>4. Placed(workspace, c)  BY <1>2, <2>2 DEF Placed
  <2>5. c.op \notin Toggles  BY <1>1, <1>2, <2>2 DEF Sound, Toggles
  <2>6. Sound(workspace, call') /\ ~ Visiting(call') /\ call' # NoCall
    BY <2>3, <2>4, <2>5, ReturnsSound
  <2> QED BY <1>1, <1>2, <1>3, <2>6, AnsweredKeeps
<1> QED BY <1>4, <1>5 DEF VisitPage

\* A person changes a setting, which the call remembers.
LEMMA PersonEditsKeeps == ASSUME AdaptersInv, PersonEdits PROVE AdaptersInv'
<1>1. /\ anonymous' = anonymous
      /\ call' = IF call.op = "none" THEN call ELSE [call EXCEPT !.edited = TRUE]
  BY DEF PersonEdits
<1>2. PICK p \in 1 .. Len(workspace.pages), name \in Settings :
        workspace' = [workspace EXCEPT !.pages[p].settings[name] = ~@]
  BY Zenon DEF PersonEdits
<1>3. workspace \in Space  BY DEF AdaptersInv
<1>4. workspace' \in Space /\ Len(workspace'.pages) = Len(workspace.pages)
  <2>1. workspace.pages \in Seq(Page) /\ workspace.pages[p] \in Page /\ p \in DOMAIN workspace.pages
    BY <1>3 DEF Space
  <2> DEFINE on == ~ workspace.pages[p].settings[name]
             page == [workspace.pages[p] EXCEPT !.settings = [@ EXCEPT ![name] = on]]
             list == [workspace.pages EXCEPT ![p] = page]
  <2>2. on \in BOOLEAN  OBVIOUS
  <2>3. workspace' = [workspace EXCEPT !.pages = list]  BY <1>2
  <2> HIDE DEF on
  <2>4. page \in Page  BY <2>1, <2>2 DEF Page
  <2> HIDE DEF page
  <2>5. list \in Seq(Page) /\ Len(list) = Len(workspace.pages)  BY <2>1, <2>4
  <2> HIDE DEF list
  <2>6. [workspace EXCEPT !.pages = list] \in Space /\ [workspace EXCEPT !.pages = list].pages = list
    BY <1>3, <2>5 DEF Space
  <2> QED BY <2>3, <2>5, <2>6
<1>5. CASE call = NoCall
  <2>1. call' = NoCall /\ anonymous' = 0  BY <1>1, <1>5 DEF NoCall, AdaptersInv
  <2> QED BY <1>4, <2>1 DEF AdaptersInv, NoCall
<1>6. CASE call # NoCall
  <2>1. Sound(workspace, call) /\ call \in Call  BY <1>6 DEF AdaptersInv, Sound
  <2>2. call.op # "none"
    BY <2>1 DEF Call, Operations, Delegated, ApiOperations, BrowserOperations
  <2>3. call' = [call EXCEPT !.edited = TRUE]  BY <1>1, <2>2
  <2>4. /\ call' \in Call /\ call'.edited = TRUE /\ call'.op = call.op /\ call'.adapter = call.adapter
        /\ call'.page = call.page /\ call'.made = call.made /\ call'.result = call.result
        /\ call'.step = call.step
    BY <2>1, <2>3, Zenon DEF Call
  <2>5. Sound(workspace', call')  BY <1>4, <2>1, <2>4, Zenon DEF Sound, Follows
  <2>6. Visiting(call') <=> Visiting(call)  BY <2>4 DEF Visiting
  <2>7. anonymous' = IF Visiting(call') THEN 1 ELSE 0  BY <1>1, <1>6, <2>6 DEF AdaptersInv
  <2>8. call' # NoCall
    <3>1. call'.op # "none"  BY <2>2, <2>4
    <3> QED BY <3>1 DEF NoCall
  <2> QED BY <1>4, <2>5, <2>7, <2>8, Zenon
      DEF AdaptersInv, Sound, Follows, Setting, SettingName, Visiting, NoCall, Call, Operations
<1> QED BY <1>5, <1>6

\* A call that returned is one the invariant speaks of.
LEMMA AdaptersInvHolds == AdaptersInv => WrittenAsAsked
<1>1. SUFFICES ASSUME AdaptersInv PROVE WrittenAsAsked  OBVIOUS
<1>2. CASE call = NoCall
  <2>1. call.op = "none" /\ call.result = "none" /\ anonymous = 0  BY <1>1, <1>2 DEF NoCall, AdaptersInv
  <2> QED BY <2>1 DEF WrittenAsAsked, NonIdempotent, Toggles
<1>3. CASE call # NoCall
  BY <1>1, <1>3 DEF AdaptersInv, Sound, Follows, Visiting, WrittenAsAsked
<1> QED BY <1>2, <1>3

\* For every set of operations and every workspace: a write that is not
\* idempotent is executed at most once in a call, a setting that was returned as
\* set is as asked, and no anonymous session outlives its call
\* (CombinedNotionAdapter, BrowserNotionAdapter).
THEOREM AdaptersWrite == AdaptersSpec => []WrittenAsAsked
<1>1. AdaptersInv /\ [AdaptersNext]_adapterVars => AdaptersInv'
  <2>1. SUFFICES ASSUME AdaptersInv, [AdaptersNext]_adapterVars PROVE AdaptersInv'  OBVIOUS
  <2>2. ASSUME NEW mode, SetAdapterMode(mode) PROVE AdaptersInv'
    BY <2>1, <2>2, SameCall DEF SetAdapterMode
  <2>3. CASE GetAdapter  BY <2>1, <2>3, SameCall DEF GetAdapter
  <2>4. ASSUME NEW op \in Used, CallFixture(op) PROVE AdaptersInv'  BY <2>1, <2>4, CallFixtureKeeps
  <2>5. ASSUME NEW op \in Used, CallCombined(op) PROVE AdaptersInv'  BY <2>1, <2>5, CallCombinedKeeps
  <2>6. CASE NotImplemented  BY <2>1, <2>6, NotImplementedKeeps
  <2>7. CASE Request  BY <2>1, <2>7, RequestKeeps
  <2>8. CASE OpenPage  BY <2>1, <2>8, OpenPageKeeps
  <2>9. CASE ClickMenu  BY <2>1, <2>9, ClickMenuKeeps
  <2>10. CASE ReadBack  BY <2>1, <2>10, ReadBackKeeps
  <2>11. CASE AskUrl  BY <2>1, <2>11, AskUrlKeeps
  <2>12. CASE OpenAnonymous  BY <2>1, <2>12, OpenAnonymousKeeps
  <2>13. CASE VisitPage  BY <2>1, <2>13, VisitPageKeeps
  <2>14. CASE PersonEdits  BY <2>1, <2>14, PersonEditsKeeps
  <2>15. CASE UNCHANGED adapterVars  BY <2>1, <2>15, SameCall DEF adapterVars
  <2> QED BY <2>1, <2>2, <2>3, <2>4, <2>5, <2>6, <2>7, <2>8, <2>9, <2>10, <2>11, <2>12, <2>13,
            <2>14, <2>15
      DEF AdaptersNext
<1> QED BY <1>1, AdaptersInitInv, AdaptersInvHolds, PTL DEF AdaptersSpec

-----------------------------------------------------------------------------
(* BrowserSession.                                                         *)

\* A mutation under way.
Mutations ==
  [profile : Profiles, key : MutationKeys,
   step : {"page", "click", "uncertain", "raised", "garbage", "capture", "finally"},
   result : {"none", "Failure", "Unknown"}]

\* The mutation under way has no receipt yet; before the click its key is not
\* clicked, and a capture has to record what was observed.
MutationOpen ==
  /\ mutation \in Mutations \cup {NoMutation}
  /\ mutation \in Mutations =>
       /\ seen[mutation.key] = NoReceipt /\ session[mutation.profile] # "none"
       /\ mutation.step \in {"page", "click"} => clicks[mutation.key] = 0
       /\ mutation.step = "capture" =>
            /\ mutation.result \in {"Failure", "Unknown"}
            /\ mutation.result = "Failure" => ~applied[mutation.key]

\* Each key: its clicks, its change, its receipt.
KeyTells(k) ==
  /\ clicks[k] \in {0, 1} /\ applied[k] \in BOOLEAN
  /\ clicks[k] = 0 => ~applied[k]
  /\ clicks[k] = 1 /\ seen[k] = NoReceipt => mutation \in Mutations /\ mutation.key = k
  /\ seen[k].status = "Success" => applied[k]
  /\ seen[k].status = "Failure" /\ seen[k].click # "error" => ~applied[k]

\* A profile's window, as its session has it.
WindowHeld(p) ==
  /\ session[p] \in {"none", "healthy", "tainted", "locked"} /\ windows[p] \in Nat
  /\ session[p] # "none" => windows[p] > 0
  /\ ~cut => windows[p] = IF session[p] = "none" THEN 0 ELSE 1

\* The inductive invariant of BrowserSession.
BrowserInv ==
  /\ DOMAIN session = Profiles /\ DOMAIN windows = Profiles /\ cut \in BOOLEAN
  /\ DOMAIN seen = MutationKeys /\ DOMAIN clicks = MutationKeys /\ DOMAIN applied = MutationKeys
  /\ MutationOpen
  /\ \A k \in MutationKeys : KeyTells(k)
  /\ \A p \in Profiles : WindowHeld(p)

\* No session, no click and no receipt.
LEMMA BrowserInitInv == BrowserInit => BrowserInv
  <1> SUFFICES ASSUME BrowserInit PROVE BrowserInv
    OBVIOUS
  <1>1. MutationOpen
    BY DEF BrowserInit, MutationOpen, Mutations, NoMutation
  <1>2. \A k \in MutationKeys : KeyTells(k)
    BY DEF BrowserInit, KeyTells, NoReceipt
  <1>3. \A p \in Profiles : WindowHeld(p)
    BY DEF BrowserInit, WindowHeld
  <1> QED
    BY Zenon, <1>1, <1>2, <1>3 DEF BrowserInit, BrowserInv

\* Between two mutations there is none under way.
LEMMA IdleIs ==
  ASSUME BrowserInv
  PROVE  Idle <=> mutation = NoMutation
  BY DEF BrowserInv, MutationOpen, Mutations, NoMutation, Idle

\* The sessions are opened, restarted and read between the mutations.
LEMMA SessionsKeep ==
  ASSUME BrowserInv, NEW p \in Profiles,
         \/ OpenSession(p) \/ Restart(p) \/ Read(p)
            \/ \E k \in MutationKeys : Mutate(p, k)
  PROVE  BrowserInv'
  <1>1. UNCHANGED <<seen, clicks, applied>> /\ mutation = NoMutation
    BY IdleIs DEF OpenSession, Restart, Read, Mutate
  <1>2. mutation' = NoMutation \/ \E k \in MutationKeys : Mutate(p, k)
    BY <1>1 DEF OpenSession, Restart, Read
  <1>3. MutationOpen'
    <2>1. CASE mutation' = NoMutation
      BY <2>1, Zenon DEF MutationOpen, NoMutation, Mutations
    <2>2. ASSUME NEW k \in MutationKeys, Mutate(p, k) PROVE MutationOpen'
      <3>1. /\ mutation' \in Mutations /\ mutation'.key = k
            /\ mutation'.step = "page" /\ seen[k] = NoReceipt
        BY <2>2 DEF Mutate, Mutations
      <3>3. mutation'.profile = p /\ session'[p] # "none"
        BY <2>2 DEF Mutate, RequireOpen
      <3>2. clicks[k] = 0
        BY <1>1, <3>1, Zenon DEF BrowserInv, KeyTells, NoMutation, Mutations
      <3> QED
        BY <1>1, <3>1, <3>2, <3>3, Zenon DEF MutationOpen
    <2> QED
      BY <1>2, <2>1, <2>2
  <1>4. \A k \in MutationKeys : KeyTells(k)'
    BY <1>1, Zenon DEF BrowserInv, KeyTells, NoMutation, Mutations
  <1>5. /\ DOMAIN session' = Profiles /\ DOMAIN windows' = Profiles /\ cut' \in BOOLEAN
        /\ \A q \in Profiles : WindowHeld(q)'
    <2> USE DEF BrowserInv, WindowHeld
    <2>1. CASE OpenSession(p)
      <3>1. session[p] = "none" /\ windows[p] \in Nat /\ (~cut => windows[p] = 0)
        BY <2>1, Zenon DEF OpenSession
      <3>0. cut' = cut \/ cut' = TRUE
        BY <2>1, Zenon DEF OpenSession
      <3>5. cut' \in BOOLEAN /\ (cut => cut')
        BY Zenon, <3>0
      <3>2. /\ DOMAIN session' = Profiles /\ DOMAIN windows' = Profiles
            /\ \A q \in Profiles : q # p => session'[q] = session[q] /\ windows'[q] = windows[q]
        BY <2>1, Zenon DEF OpenSession
      <3>3. \/ session'[p] = "none" /\ windows'[p] = windows[p] /\ cut' = cut
            \/ session'[p] \in {"healthy", "locked"} /\ windows'[p] = windows[p] + 1 /\ cut' = cut
            \/ session'[p] = "none" /\ windows'[p] = windows[p] + 1 /\ cut'
        BY <2>1, <3>1, ZenonT(30) DEF OpenSession
      <3>4. WindowHeld(p)'
        BY <3>1, <3>3
      <3> QED
        BY <3>2, <3>4, <3>5, Zenon
    <2>2. CASE Restart(p)
      <3>1. /\ WindowHeld(p) /\ session[p] \in {"healthy", "tainted"}
            /\ DOMAIN session' = Profiles /\ DOMAIN windows' = Profiles /\ cut' = cut
            /\ \A q \in Profiles : q # p => session'[q] = session[q] /\ windows'[q] = windows[q]
        BY <2>2, Zenon DEF Restart
      <3>2. \/ session'[p] = "none" /\ windows'[p] = windows[p] - 1
            \/ session'[p] = "locked" /\ windows'[p] = windows[p]
        BY <2>2, Zenon DEF Restart
      <3>3. WindowHeld(p)'
        BY <3>1, <3>2
      <3> QED
        BY <3>1, <3>3, ZenonT(30)
    <2>3. CASE Read(p)
      BY <2>3, Zenon DEF Read, RequireOpen
    <2>4. CASE \E k \in MutationKeys : Mutate(p, k)
      <3>1. UNCHANGED <<session, windows, cut>>
        BY <2>4, Zenon DEF Mutate
      <3> QED
        BY <3>1, Zenon
    <2> QED
      BY <2>1, <2>2, <2>3, <2>4, Zenon
  <1> QED
    BY <1>1, <1>3, <1>4, <1>5, Zenon DEF BrowserInv

\* A receipt ends the mutation.
LEMMA RecordKeeps ==
  ASSUME BrowserInv, mutation \in Mutations, NEW status, NEW click, NEW taint \in BOOLEAN,
         RecordReceipt(status, click, taint), UNCHANGED <<windows, cut>>,
         DOMAIN clicks' = MutationKeys, DOMAIN applied' = MutationKeys,
         \A k \in MutationKeys :
           k # mutation.key => clicks'[k] = clicks[k] /\ applied'[k] = applied[k],
         clicks'[mutation.key] \in {0, 1}, applied'[mutation.key] \in BOOLEAN,
         clicks'[mutation.key] = 0 => ~applied'[mutation.key],
         status # "none",
         status = "Success" => applied'[mutation.key],
         status = "Failure" /\ click # "error" => ~applied'[mutation.key]
  PROVE  BrowserInv'
  <1>1. mutation.key \in MutationKeys /\ mutation.profile \in Profiles /\ mutation' = NoMutation
    BY Zenon DEF Mutations, RecordReceipt
  <1>2. /\ DOMAIN seen' = MutationKeys /\ seen'[mutation.key] = [status |-> status, click |-> click]
        /\ \A k \in MutationKeys : k # mutation.key => seen'[k] = seen[k]
    BY <1>1, Zenon DEF RecordReceipt, BrowserInv
  <1>3. seen'[mutation.key] # NoReceipt
    BY <1>2 DEF NoReceipt
  <1>4. MutationOpen'
    BY <1>1, Zenon DEF MutationOpen, NoMutation, Mutations
  <1>5. ASSUME NEW k \in MutationKeys PROVE KeyTells(k)'
    BY <1>1, <1>2, <1>3 DEF BrowserInv, KeyTells
  <1>6. /\ DOMAIN session' = Profiles
        /\ \A p \in Profiles :
             session'[p] = session[p] \/ (p = mutation.profile /\ session'[p] = "tainted")
    BY <1>1, Zenon DEF RecordReceipt, BrowserInv
  <1>7. ASSUME NEW p \in Profiles PROVE WindowHeld(p)'
    <2>1. WindowHeld(p) /\ windows' = windows /\ cut' = cut
      BY Zenon DEF BrowserInv
    <2>2. session[mutation.profile] # "none"
      BY Zenon DEF BrowserInv, MutationOpen
    <2> QED
      BY <1>6, <2>1, <2>2 DEF WindowHeld
  <1> QED
    BY <1>1, <1>2, <1>4, <1>5, <1>6, <1>7, Zenon DEF BrowserInv

\* A step of the mutation that leaves it open.
LEMMA OpenKeeps ==
  ASSUME BrowserInv, mutation \in Mutations, mutation' \in Mutations,
         mutation'.key = mutation.key, mutation'.profile = mutation.profile,
         UNCHANGED <<session, seen, windows, cut>>,
         DOMAIN clicks' = MutationKeys, DOMAIN applied' = MutationKeys,
         \A k \in MutationKeys :
           k # mutation.key => clicks'[k] = clicks[k] /\ applied'[k] = applied[k],
         clicks'[mutation.key] \in {0, 1}, applied'[mutation.key] \in BOOLEAN,
         clicks'[mutation.key] = 0 => ~applied'[mutation.key],
         mutation'.step \in {"page", "click"} => clicks'[mutation.key] = 0,
         mutation'.step = "capture" =>
           /\ mutation'.result \in {"Failure", "Unknown"}
           /\ mutation'.result = "Failure" => ~applied'[mutation.key]
  PROVE  BrowserInv'
  <1>1. mutation.key \in MutationKeys /\ seen[mutation.key] = NoReceipt
    BY Zenon DEF BrowserInv, MutationOpen, Mutations
  <1>2. MutationOpen'
    BY <1>1, Zenon DEF BrowserInv, MutationOpen
  <1>3. ASSUME NEW k \in MutationKeys PROVE KeyTells(k)'
    BY <1>1 DEF BrowserInv, KeyTells, NoReceipt
  <1>4. \A p \in Profiles : WindowHeld(p)'
    BY Zenon DEF BrowserInv, WindowHeld
  <1> QED
    BY <1>2, <1>3, <1>4, Zenon DEF BrowserInv

\* A mutation that ends before its click leaves nothing.
LEMMA LeaveKeeps ==
  ASSUME BrowserInv, mutation \in Mutations, clicks[mutation.key] = 0,
     mutation' = NoMutation,
         UNCHANGED <<session, seen, windows, cut, clicks, applied>>
  PROVE  BrowserInv'
  <1>1. MutationOpen'
    BY DEF MutationOpen, NoMutation, Mutations
  <1>2. \A k \in MutationKeys : KeyTells(k)'
    BY DEF BrowserInv, KeyTells
  <1>3. \A p \in Profiles : WindowHeld(p)'
    BY DEF BrowserInv, WindowHeld
  <1> QED
    BY <1>1, <1>2, <1>3, Zenon DEF BrowserInv

\* A mutation clicks once and ends with a receipt, whatever its calls do.
LEMMA MutationKeeps ==
  ASSUME BrowserInv,
         PageKind \/ Click \/ Reconcile \/ Capture
            \/ RecordRaised \/ BlockAfterClick \/ Finally
  PROVE  BrowserInv'
  <1>1. mutation \in Mutations
    <2>1. mutation.step # "idle"
      BY Zenon DEF PageKind, Click, Reconcile, Capture,
         RecordRaised, BlockAfterClick, Finally, At
    <2> QED
      BY <2>1 DEF BrowserInv, MutationOpen, NoMutation
  <1>2. /\ mutation.key \in MutationKeys /\ DOMAIN clicks = MutationKeys /\ DOMAIN applied = MutationKeys
        /\ KeyTells(mutation.key) /\ UNCHANGED <<windows, cut>>
    BY Zenon, <1>1 DEF BrowserInv, Mutations, PageKind, Click, Reconcile,
       Capture, RecordRaised,
       BlockAfterClick, Finally
  <1>3. ASSUME NEW x \in {"click", "uncertain", "raised", "garbage", "finally"}, Goes(x)
        PROVE  /\ mutation' \in Mutations /\ mutation'.key = mutation.key /\ mutation'.step = x
               /\ mutation'.profile = mutation.profile
    BY <1>1, <1>3 DEF Goes, Mutations
  <1>4. CASE PageKind
    <2>1. clicks[mutation.key] = 0 /\ ~applied[mutation.key] /\ UNCHANGED <<clicks, applied>>
      BY <1>1, <1>2, <1>4, Zenon DEF PageKind, At, BrowserInv, MutationOpen, KeyTells
    <2>2. CASE Goes("click") /\ UNCHANGED <<session, seen>>
      BY <1>1, <1>2, <1>3, <2>1, <2>2, OpenKeeps, Zenon DEF KeyTells
    <2>3. CASE RecordReceipt("Failure", "not-clicked", TRUE)
      BY Zenon, <1>1, <1>2, <2>1, <2>3, RecordKeeps DEF BrowserInv, KeyTells
    <2>4. CASE mutation' = NoMutation /\ UNCHANGED <<session, seen>>
      BY <1>1, <1>2, <2>1, <2>4, LeaveKeeps
    <2> QED
      BY Zenon, <1>4, <2>2, <2>3, <2>4 DEF PageKind
  <1>5. CASE Click
    <2>1. /\ DOMAIN clicks' = MutationKeys /\ DOMAIN applied' = MutationKeys
          /\ \A k \in MutationKeys :
               k # mutation.key => clicks'[k] = clicks[k] /\ applied'[k] = applied[k]
          /\ clicks'[mutation.key] = 1 /\ applied'[mutation.key] \in BOOLEAN
      <3>1. clicks[mutation.key] = 0 /\ applied[mutation.key] \in BOOLEAN
        BY <1>1, <1>2, <1>5, Zenon DEF Click, At, BrowserInv, MutationOpen, KeyTells
      <3>2. /\ clicks' = [clicks EXCEPT ![mutation.key] = clicks[mutation.key] + 1]
            /\ applied' = applied \/ applied' = [applied EXCEPT ![mutation.key] = TRUE]
        BY Zenon, <1>5 DEF Click
      <3>3. /\ DOMAIN clicks' = MutationKeys /\ clicks'[mutation.key] = 1
            /\ \A k \in MutationKeys : k # mutation.key => clicks'[k] = clicks[k]
        BY <1>2, <3>1, <3>2
      <3>4. CASE applied' = applied
        BY <1>2, <3>1, <3>3, <3>4, Zenon
      <3>5. CASE applied' = [applied EXCEPT ![mutation.key] = TRUE]
        <4>1. /\ DOMAIN applied' = MutationKeys /\ applied'[mutation.key] = TRUE
              /\ \A k \in MutationKeys : k # mutation.key => applied'[k] = applied[k]
          BY <1>2, <3>5
        <4> QED
          BY Zenon, <3>3, <4>1
      <3> QED
        BY <3>2, <3>4, <3>5
    <2>2. CASE /\ applied' = [applied EXCEPT ![mutation.key] = TRUE]
               /\ RecordReceipt("Success", "applied", FALSE)
      <3>1. applied'[mutation.key] = TRUE
        BY <1>2, <2>2
      <3>2. clicks'[mutation.key] \in {0, 1} /\ clicks'[mutation.key] # 0
        BY <2>1
      <3> QED
        BY Zenon, <1>1, <1>2, <2>1, <2>2, <3>1, <3>2, RecordKeeps
    <2>3. CASE /\ \E to \in {"uncertain", "raised", "garbage", "finally"} : Goes(to)
               /\ UNCHANGED <<session, seen>>
      BY <1>1, <1>2, <1>3, <2>1, <2>3, OpenKeeps
    <2> QED
      BY Zenon, <1>5, <2>2, <2>3 DEF Click
  <1>6. CASE ~PageKind /\ ~Click
    <2>1. /\ UNCHANGED <<clicks, applied>>
          /\ clicks[mutation.key] \in {0, 1} /\ applied[mutation.key] \in BOOLEAN
      BY Zenon, <1>2, <1>6 DEF Reconcile, Capture, RecordRaised,
         BlockAfterClick, Finally, KeyTells
    <2>2. CASE Goes("finally") /\ UNCHANGED <<session, seen>>
      BY <1>1, <1>2, <1>3, <2>1, <2>2, OpenKeeps, Zenon DEF KeyTells
    <2>3. ASSUME NEW result \in {"Failure", "Unknown"}, UNCHANGED <<session, seen>>,
                 mutation' = [mutation EXCEPT !.step = "capture", !.result = result],
                 result = "Failure" => ~applied[mutation.key]
          PROVE  BrowserInv'
      <3>1. /\ mutation' \in Mutations /\ mutation'.key = mutation.key /\ mutation'.step = "capture"
            /\ mutation'.profile = mutation.profile /\ mutation'.result = result
        BY Zenon, <1>1, <2>3 DEF Mutations
      <3> QED
        BY <1>1, <1>2, <2>1, <2>3, <3>1, OpenKeeps DEF KeyTells
    <2>4. ASSUME NEW status \in {"Success", "Failure", "Unknown"}, NEW click, NEW taint \in BOOLEAN,
                 RecordReceipt(status, click, taint),
                 status = "Success" => applied[mutation.key],
                 status = "Failure" /\ click # "error" => ~applied[mutation.key]
          PROVE  BrowserInv'
      BY <1>1, <1>2, <2>1, <2>4, RecordKeeps, Zenon DEF KeyTells
    <2>5. CASE Reconcile
      BY Zenon, <2>2, <2>3, <2>4, <2>5 DEF Reconcile
    <2>6. CASE Capture
      BY Zenon, <1>1, <2>2, <2>4, <2>6 DEF Capture, At, BrowserInv, MutationOpen
    <2>7. CASE RecordRaised \/ BlockAfterClick \/ Finally
      BY Zenon, <2>2, <2>4, <2>7 DEF RecordRaised, BlockAfterClick, Finally
    <2> QED
      BY <1>6, <2>5, <2>6, <2>7
  <1> QED
    BY <1>4, <1>5, <1>6

\* ClickedOnce, for any number of profiles, keys and sessions: whatever the driver
\* raises and wherever it is interrupted, a key is clicked once, its click leaves
\* a receipt that tells what is on the page, and a profile has one window.
THEOREM ClicksStayOnce == BrowserSpec => []ClickedOnce
  <1>1. BrowserInv /\ [BrowserNext]_browserVars => BrowserInv'
    <2> SUFFICES ASSUME BrowserInv, [BrowserNext]_browserVars PROVE BrowserInv'
      OBVIOUS
    <2>1. CASE UNCHANGED browserVars
      BY <2>1, Zenon DEF browserVars, BrowserInv, MutationOpen, KeyTells, WindowHeld
    <2> QED
      BY <2>1, SessionsKeep, MutationKeeps DEF BrowserNext
  <1>2. BrowserInv => ClickedOnce
    <2> SUFFICES ASSUME BrowserInv PROVE ClickedOnce
      OBVIOUS
    <2>1. ASSUME NEW k \in MutationKeys, clicks[k] = 1, seen[k] = NoReceipt
          PROVE  ~Idle /\ mutation.key = k
      BY <2>1, IdleIs, ZenonT(30) DEF BrowserInv, KeyTells, Mutations, NoMutation
    <2>2. ASSUME ~cut, NEW p \in Profiles PROVE windows[p] <= 1
      <3>1. windows[p] = 0 \/ windows[p] = 1
        BY <2>2 DEF BrowserInv, WindowHeld
      <3> QED
        BY <3>1
    <2>3. ASSUME NEW k \in MutationKeys PROVE clicks[k] <= 1
      <3>1. clicks[k] = 0 \/ clicks[k] = 1
        BY DEF BrowserInv, KeyTells
      <3> QED
        BY <3>1
    <2>4. ASSUME NEW k \in MutationKeys
          PROVE  /\ seen[k].status = "Success" => applied[k]
                 /\ seen[k].status = "Failure" /\ seen[k].click # "error" => ~applied[k]
      BY DEF BrowserInv, KeyTells
    <2> QED
      BY <2>1, <2>2, <2>3, <2>4, Zenon DEF ClickedOnce
  <1> QED
    BY <1>1, <1>2, BrowserInitInv, PTL DEF BrowserSpec
=============================================================================
