------------------------ MODULE GuavaDispatchProofs ------------------------
(***************************************************************************)
(* What GuavaDispatch promises of an answer, for every pool of routers,    *)
(* every set of requests and any number of calls.  Each place in           *)
(* on_message_complete has a fact about the response, the session and the  *)
(* methods that have returned: DispatchInv.  RouteInv follows the routing, *)
(* WireInv the headers and the length of the answer.                       *)
(***************************************************************************)
EXTENDS GuavaDispatch, GuavaTextProofs, SequenceTheorems, FiniteSetTheorems

ResponseOK(r) == DOMAIN r = {"status", "headers", "cookies", "data", "follows", "leaked"}

Unrouted == {"best", "none", "custom", "check"}
Loading == {"import", "class", "construct"}
Acting == {"before_action", "action", "after_action", "save"}
Places == Unrouted \cup Loading \cup Acting \cup {"send", "cleanup", "idle"}

AllRan == <<"before_action", "action", "after_action">>

\* The methods that have returned before each place.
RanBefore ==
    /\ at = "before_action" => ran = <<>>
    /\ at = "action" => ran = <<"before_action">>
    /\ at = "after_action" => ran = <<"before_action", "action">>
    /\ at = "save" => ran = AllRan

\* Nothing has been done to the response.
Fresh ==
    /\ resp = NewResponse /\ sent = 0
    /\ session = "NULL" /\ ran = <<>> /\ failed = FALSE /\ wrote = 0

\* The application is at work, and what it wrote is in the response.
Working ==
    /\ ResponseOK(resp) /\ resp.status # 500 /\ resp.leaked = FALSE
    /\ wrote \in Nat /\ resp.data = wrote
    /\ session \in {"NULL", "set"} /\ failed = FALSE /\ sent = 0

\* The answer is decided.
Outcome ==
    /\ ResponseOK(resp) /\ failed \in BOOLEAN
    /\ resp.status = 500 <=> failed = TRUE
    /\ session = "saved" => ran = AllRan /\ failed = FALSE
    /\ session = "set" => failed = TRUE
    /\ resp.leaked => failed = TRUE /\ wrote > 0

DispatchInv ==
    /\ at \in Places /\ byPython \in BOOLEAN
    /\ at \in Unrouted => Fresh
    /\ at \in Loading => Fresh /\ byPython = FALSE
    /\ at \in Acting => Working /\ byPython = FALSE
    /\ RanBefore
    /\ at = "send" => Outcome /\ sent = 0 /\ byPython = FALSE
    /\ at = "cleanup" => Outcome /\ sent = 1 /\ byPython = FALSE
    /\ at = "idle" => (Fresh /\ (byPython = TRUE \/ calls = 0)) \/ (Outcome /\ sent = 1)

----------------------------------------------------------------------------
(* The response. *)

\* A new response is one, and is no 500.
LEMMA NewIsResponse ==
    /\ ResponseOK(NewResponse) /\ NewResponse.status = 200
    /\ NewResponse.data = 0 /\ NewResponse.leaked = FALSE
  BY DEF ResponseOK, NewResponse

\* The setters change what they say they do.
LEMMA SetStatusSets ==
    ASSUME NEW r, ResponseOK(r), NEW code
    PROVE  /\ ResponseOK(SetStatus(r, code)) /\ SetStatus(r, code).status = code % 65536
           /\ SetStatus(r, code).data = r.data /\ SetStatus(r, code).leaked = r.leaked
  BY DEF ResponseOK, SetStatus

LEMMA SetHeaderKeeps ==
    ASSUME NEW r, ResponseOK(r), NEW h, NEW line
    PROVE  /\ ResponseOK(SetHeader(r, h, line)) /\ SetHeader(r, h, line).status = r.status
           /\ SetHeader(r, h, line).data = r.data /\ SetHeader(r, h, line).leaked = r.leaked
  BY DEF ResponseOK, SetHeader

LEMMA SetCookieKeeps ==
    ASSUME NEW r, ResponseOK(r), NEW name, NEW line
    PROVE  /\ ResponseOK(SetCookie(r, name, line)) /\ SetCookie(r, name, line).status = r.status
           /\ SetCookie(r, name, line).data = r.data /\ SetCookie(r, name, line).leaked = r.leaked
  BY DEF ResponseOK, SetCookie

LEMMA WriteWrites ==
    ASSUME NEW r, ResponseOK(r), NEW length
    PROVE  /\ ResponseOK(Write(r, length)) /\ Write(r, length).status = r.status
           /\ Write(r, length).data = r.data + length /\ Write(r, length).leaked = r.leaked
  BY DEF ResponseOK, Write

LEMMA SetDataSets ==
    ASSUME NEW r, ResponseOK(r), NEW length
    PROVE  /\ ResponseOK(SetData(r, length)) /\ SetData(r, length).status = r.status
           /\ (r.data = 0 => SetData(r, length).leaked = r.leaked)
  BY DEF ResponseOK, SetData

\* Sending a response changes headers only.
LEMMA FinishedKeeps ==
    ASSUME NEW r, ResponseOK(r)
    PROVE  /\ ResponseOK(Finished(r)) /\ Finished(r).status = r.status
           /\ Finished(r).leaked = r.leaked
  <1> DEFINE typed == IF "Content-Type" \in DOMAIN r.headers THEN r ELSE SetHeader(r, "Content-Type", Text)
  <1>1. ResponseOK(typed) /\ typed.status = r.status /\ typed.leaked = r.leaked
    BY SetHeaderKeeps
  <1>2. Finished(r) = SetHeader(typed, "Connection", Text)
    BY DEF Finished
  <1> HIDE DEF typed
  <1> QED BY <1>1, <1>2, SetHeaderKeeps

\* The prepared answers: 404 and 500 with their texts,
LEMMA NotFoundText ==
    ASSUME NEW r, ResponseOK(r)
    PROVE  /\ ResponseOK(NotFoundAnswer(r)) /\ NotFoundAnswer(r).status = 404
           /\ (r.data = 0 => NotFoundAnswer(r).leaked = r.leaked)
  <1>1. 404 % 65536 = 404
    OBVIOUS
  <1> QED BY <1>1, SetStatusSets, SetDataSets DEF NotFoundAnswer

LEMMA ErrorText ==
    ASSUME NEW r, ResponseOK(r)
    PROVE  /\ ResponseOK(ErrorAnswer(r)) /\ ErrorAnswer(r).status = 500
           /\ (r.data = 0 => ErrorAnswer(r).leaked = r.leaked)
  <1>1. 500 % 65536 = 500
    OBVIOUS
  <1> QED BY <1>1, SetStatusSets, SetDataSets DEF ErrorAnswer

\* redirections,
LEMMA RedirectAnswers ==
    ASSUME NEW r, ResponseOK(r), NEW line
    PROVE  /\ ResponseOK(RedirectAnswer(r, line)) /\ RedirectAnswer(r, line).status = 303
           /\ RedirectAnswer(r, line).leaked = r.leaked /\ RedirectAnswer(r, line).data = r.data
  <1>1. 303 % 65536 = 303
    OBVIOUS
  <1> QED BY <1>1, SetStatusSets, SetHeaderKeeps DEF RedirectAnswer

\* listings and files.
LEMMA ListingAnswers ==
    ASSUME NEW r, ResponseOK(r), NEW length
    PROVE  /\ ResponseOK(ListingAnswer(r, length)) /\ ListingAnswer(r, length).status = r.status
           /\ (r.data = 0 => ListingAnswer(r, length).leaked = r.leaked)
  BY SetHeaderKeeps, SetDataSets DEF ListingAnswer

LEMMA FileAnswers ==
    ASSUME NEW r, ResponseOK(r), NEW size, NEW passed
    PROVE  /\ ResponseOK(FileAnswer(r, size, passed)) /\ FileAnswer(r, size, passed).status = r.status
           /\ FileAnswer(r, size, passed).leaked = r.leaked
  <1> DEFINE typed == SetHeader(SetHeader(r, "Content-Type", Text), "Content-Length", Line(size))
  <1>1. ResponseOK(typed) /\ typed.status = r.status /\ typed.leaked = r.leaked
    BY SetHeaderKeeps
  <1> HIDE DEF typed
  <1>2. FileAnswer(r, size, passed) = [typed EXCEPT !.follows = passed]
    BY DEF FileAnswer, typed
  <1> QED BY <1>1, <1>2 DEF ResponseOK

\* Whatever the application calls, its response is none with the status 500,
\* and what it has written is there.
LEMMA CallsWork ==
    ASSUME Working, NEW c \in Calls
    PROVE  /\ ResponseOK(c.resp) /\ c.resp.status # 500 /\ c.resp.leaked = FALSE
           /\ c.wrote \in Nat /\ c.resp.data = wrote + c.wrote
  <1> DEFINE Good(r, n) == /\ ResponseOK(r) /\ r.status # 500 /\ r.leaked = FALSE
                           /\ n \in Nat /\ r.data = wrote + n
  <1> USE DEF Working
  <1>1. Good(resp, 0) /\ Good(Write(resp, 1), 1)
    BY WriteWrites
  <1>2. \A h, line : Good(SetHeader(resp, h, line), 0)
    BY SetHeaderKeeps
  <1>3. \A code \in Statuses : Good(SetStatus(resp, code), 0)
    BY SetStatusSets, DispatchAssumption
  <1>4. \A line : Good(SetCookie(resp, "name", line), 0)
    BY SetCookieKeeps
  <1>5. \A line : Good(RedirectAnswer(resp, line), 0)
    BY RedirectAnswers
  <1>6. Good(c.resp, c.wrote)
    <2> HIDE DEF Good, Working
    <2>1. c \in Writes
      BY DEF Calls
    <2> QED BY <1>1, <1>2, <1>3, <1>4, <1>5, <2>1 DEF Writes
  <1> QED BY <1>6

----------------------------------------------------------------------------
(* The steps.  What none of them touches keeps DispatchInv as it is. *)

LEMMA InitHolds == Init => DispatchInv
  BY DEF Init, DispatchInv, Fresh, RanBefore, Places, Unrouted, Loading, Acting

\* Adding routers and starting the server leave the answer alone.
LEMMA ServerKeeps ==
    ASSUME DispatchInv, (\E r \in Pool : AddRouter(r)) \/ Start
    PROVE  DispatchInv'
  <1>1. UNCHANGED <<at, calls, byPython, response, user>>
    BY DEF AddRouter, Start
  <1> QED BY <1>1 DEF response, user, DispatchInv, Fresh, Working, Outcome, RanBefore

\* A call begins with a response of its own.
LEMMA BeginKeeps ==
    ASSUME DispatchInv, NEW python \in BOOLEAN, Begin(python)
    PROVE  DispatchInv'
  BY DEF Begin, Goto, At, DispatchInv, Fresh, RanBefore, Places, Unrouted, Loading, Acting

\* Routing does not touch the answer.
LEMMA RoutingKeeps ==
    ASSUME DispatchInv, RouteBest \/ RouteCustom \/ RouteCustomEnd \/ AssertHandler
    PROVE  DispatchInv'
  <1>1. /\ at \in Unrouted /\ at' \in Unrouted
        /\ UNCHANGED <<calls, byPython, response, user>>
    <2>1. CASE RouteBest
      BY <2>1 DEF RouteBest, At, Goto, Die, Unrouted
    <2>2. CASE RouteCustom
      BY <2>2 DEF RouteCustom, CustomRound, At, Goto, Die, Unrouted
    <2>3. CASE RouteCustomEnd
      BY <2>3 DEF RouteCustomEnd, Only, At, Goto, Unrouted
    <2>4. CASE AssertHandler
      BY <2>4 DEF AssertHandler, Only, At, Die, Unrouted
    <2> QED BY <2>1, <2>2, <2>3, <2>4
  <1> QED BY <1>1 DEF response, user, DispatchInv, Fresh, RanBefore, Places, Unrouted, Loading, Acting

\* Server.route returns: no answer.
LEMMA ReturnKeeps ==
    ASSUME DispatchInv, ReturnToPython
    PROVE  DispatchInv'
  BY DEF ReturnToPython, At, Goto, response, user, DispatchInv, Fresh, RanBefore, Places,
         Unrouted, Loading, Acting

\* What was decided before an answer was sent holds when it has been.
LEMMA SendDecides ==
    ASSUME NEW answer, ResponseOK(answer), Send(answer, "cleanup"),
           sent = 0, byPython = FALSE, failed \in BOOLEAN,
           UNCHANGED <<byPython, session, ran, failed, wrote>>,
           answer.status = 500 <=> failed = TRUE,
           session = "saved" => ran = AllRan /\ failed = FALSE,
           session = "set" => failed = TRUE,
           answer.leaked => failed = TRUE /\ wrote > 0
    PROVE  DispatchInv'
  <1>1. at' = "cleanup" /\ sent' = 1 /\ resp' = Finished(answer) /\ byPython' = FALSE
    BY DEF Send, Goto
  <1>2. Outcome'
    BY <1>1, FinishedKeeps DEF Outcome
  <1> QED BY <1>1, <1>2 DEF DispatchInv, RanBefore, Places, Unrouted, Loading, Acting

\* 404, a redirection, a file or a listing answer a fresh response.
LEMMA ShortAnswersKeep ==
    ASSUME DispatchInv, NotFound \/ Redirect \/ ServeStatic \/ ServeFile
    PROVE  DispatchInv'
  <1>1. Fresh /\ byPython = FALSE /\ at = "check"
    BY DEF NotFound, Redirect, ServeStatic, ServeFile, ToStatic, Checked, At, DispatchInv, Unrouted
  <1>2. ResponseOK(resp) /\ resp.status = 200 /\ resp.data = 0 /\ resp.leaked = FALSE
    BY <1>1, NewIsResponse DEF Fresh
  <1>3. UNCHANGED <<byPython, session, ran, failed, wrote>>
    BY DEF NotFound, Redirect, ServeStatic, ServeFile, Answer, Only, user
  <1> DEFINE Quiet(r) == ResponseOK(r) /\ r.status # 500 /\ r.leaked = FALSE
  <1>4. Quiet(NotFoundAnswer(resp))
    BY <1>2, NotFoundText
  <1>5. \A line : Quiet(RedirectAnswer(resp, line))
    BY <1>2, RedirectAnswers
  <1>6. \A length : Quiet(ListingAnswer(resp, length))
    BY <1>2, ListingAnswers
  <1>7. \A size, passed : Quiet(FileAnswer(resp, size, passed))
    BY <1>2, FileAnswers
  <1>8. CASE Only(Die("crashed"))
    BY <1>1, <1>8 DEF Only, Die, response, user, DispatchInv, Fresh, RanBefore, Places, Unrouted, Loading, Acting
  <1>9. Only(Die("crashed")) \/ \E answer : Send(answer, "cleanup") /\ Quiet(answer)
    <2> HIDE DEF Quiet
    <2>1. CASE NotFound
      BY <1>4, <2>1 DEF NotFound, Answer
    <2>2. CASE Redirect
      BY <1>5, <2>2 DEF Redirect
    <2>3. CASE ServeStatic
      BY <1>4, <1>6, <2>3 DEF ServeStatic, Answer
    <2>4. CASE ServeFile
      BY <1>7, <2>4 DEF ServeFile
    <2> QED BY <2>1, <2>2, <2>3, <2>4
  <1>10. CASE \E answer : Send(answer, "cleanup") /\ Quiet(answer)
    BY <1>1, <1>3, <1>10, SendDecides DEF Fresh
  <1> QED BY <1>8, <1>9, <1>10

\* The answer of a page.
LEMMA SendPageKeeps ==
    ASSUME DispatchInv, SendPage
    PROVE  DispatchInv'
  <1>1. Outcome /\ sent = 0 /\ byPython = FALSE /\ Send(resp, "cleanup")
    BY DEF SendPage, Answer, At, DispatchInv
  <1>2. UNCHANGED <<byPython, session, ran, failed, wrote>>
    BY DEF SendPage, Answer, user
  <1> QED BY <1>1, <1>2, SendDecides DEF Outcome

\* A page is found.
LEMMA FindPageKeeps ==
    ASSUME DispatchInv, FindPage
    PROVE  DispatchInv'
  <1>1. /\ at = "check" /\ byPython = FALSE /\ at' \in {"check", "import"}
        /\ UNCHANGED <<calls, byPython, response, user>>
    BY DEF FindPage, Checked, Only, At, Goto, Die, DispatchInv
  <1> QED BY <1>1 DEF response, user, DispatchInv, Fresh, RanBefore, Places, Unrouted, Loading, Acting

\* A failed step decides for 500.
LEMMA FailDecides ==
    ASSUME NEW answer, ResponseOK(answer), Fail(answer, "send"),
           sent = 0, sent' = 0, byPython = FALSE, byPython' = FALSE,
           session' \in {"NULL", "set"},
           answer.leaked = FALSE, answer.data \in Nat, answer.data > 0 => wrote' > 0
    PROVE  DispatchInv'
  <1>1. at' = "send" /\ resp' = ErrorAnswer(answer) /\ failed' = TRUE
    BY DEF Fail, Goto
  <1>2. ResponseOK(resp') /\ resp'.status = 500 /\ (answer.data = 0 => resp'.leaked = FALSE)
    BY <1>1, ErrorText
  <1>3. Outcome'
    BY <1>1, <1>2 DEF Outcome
  <1> QED BY <1>1, <1>3 DEF DispatchInv, RanBefore, Places, Unrouted, Loading, Acting

\* Import, class and constructor.
LEMMA LoadingKeeps ==
    ASSUME DispatchInv, Import \/ Class \/ Construct
    PROVE  DispatchInv'
  <1>1. PICK here \in Loading, there \in Loading \cup {"before_action"} : LoadPage(here, there)
    BY DEF Import, Class, Construct, Loading
  <1>2. Fresh /\ byPython = FALSE /\ at = here
    BY <1>1 DEF LoadPage, At, DispatchInv
  <1>3. UNCHANGED <<calls, byPython, sent, session, ran, wrote>>
    BY <1>1 DEF LoadPage
  <1>4. ResponseOK(resp) /\ resp.status = 200 /\ resp.data = 0 /\ resp.leaked = FALSE
    BY <1>2, NewIsResponse DEF Fresh
  <1>5. CASE Goto(there) /\ UNCHANGED <<failed, resp>>
    <2>1. CASE there \in Loading
      BY <1>2, <1>3, <1>5, <2>1 DEF Goto, DispatchInv, Fresh, RanBefore, Places, Unrouted, Loading, Acting
    <2>2. CASE there = "before_action"
      BY <1>2, <1>3, <1>4, <1>5, <2>2
      DEF Goto, DispatchInv, Fresh, Working, RanBefore, Places, Unrouted, Loading, Acting
    <2> QED BY <2>1, <2>2
  <1>6. CASE Fail(resp, "send")
    <2>1. sent = 0 /\ sent' = 0 /\ byPython' = FALSE /\ session' = "NULL"
      BY <1>2, <1>3 DEF Fresh
    <2>2. resp.data \in Nat /\ (resp.data > 0 => wrote' > 0)
      BY <1>4
    <2> QED BY <1>2, <1>4, <1>6, <2>1, <2>2, FailDecides
  <1>7. CASE Die("crashed") /\ UNCHANGED <<failed, resp>>
    BY <1>2, <1>3, <1>7 DEF Die, DispatchInv, Fresh, RanBefore, Places, Unrouted, Loading, Acting
  <1> QED BY <1>1, <1>5, <1>6, <1>7 DEF LoadPage

\* Short sequences.
LEMMA Appends ==
    ASSUME NEW a, NEW b, NEW c
    PROVE  Append(<<>>, a) = <<a>> /\ Append(<<a>>, b) = <<a, b>> /\ Append(<<a, b>>, c) = <<a, b, c>>
  <1> DEFINE S == {a, b, c}
  <1>1. Append(<<>>, a) = <<a>>
    OBVIOUS
  <1>2. Append(<<a>>, b) = <<a, b>>
    <2>1. <<a>> \in Seq(S) /\ b \in S /\ <<a, b>> \in Seq(S)
      OBVIOUS
    <2>2. Append(<<a>>, b) \in Seq(S) /\ Len(Append(<<a>>, b)) = 2
      BY <2>1
    <2>3. \A i \in 1 .. 2 : Append(<<a>>, b)[i] = <<a, b>>[i]
      BY <2>1
    <2> QED BY <2>1, <2>2, <2>3, SeqEqual
  <1>3. Append(<<a, b>>, c) = <<a, b, c>>
    <2>1. <<a, b>> \in Seq(S) /\ c \in S /\ <<a, b, c>> \in Seq(S)
      OBVIOUS
    <2>2. Append(<<a, b>>, c) \in Seq(S) /\ Len(Append(<<a, b>>, c)) = 3
      BY <2>1
    <2>3. \A i \in 1 .. 3 : Append(<<a, b>>, c)[i] = <<a, b, c>>[i]
      BY <2>1
    <2> QED BY <2>1, <2>2, <2>3, SeqEqual
  <1> QED BY <1>1, <1>2, <1>3

\* before_action, the action, after_action.
LEMMA MethodKeeps ==
    ASSUME DispatchInv, NEW m \in {"before_action", "action", "after_action"}, Method(m)
    PROVE  DispatchInv'
  <1>1. Working /\ byPython = FALSE /\ at = m /\ RanBefore
    BY DEF Method, CallMethod, At, DispatchInv, Acting
  <1>2. UNCHANGED <<byPython, sent>> /\ session' \in {"NULL", "set"}
    BY <1>1 DEF Method, CallMethod, Working
  <1>3. PICK c \in Calls :
          /\ wrote' = wrote + c.wrote
          /\ \/ Goto(AfterMethod(m)) /\ resp' = c.resp /\ ran' = Append(ran, m) /\ UNCHANGED failed
             \/ Fail(c.resp, "send")
    BY DEF Method, CallMethod
  <1>4. /\ ResponseOK(c.resp) /\ c.resp.status # 500 /\ c.resp.leaked = FALSE
        /\ c.wrote \in Nat /\ c.resp.data = wrote + c.wrote /\ wrote \in Nat
    BY <1>1, CallsWork, ZenonT(30) DEF Working
  <1>5. CASE Goto(AfterMethod(m)) /\ resp' = c.resp /\ ran' = Append(ran, m) /\ UNCHANGED failed
    <2>1. /\ m = "before_action" => at' = "action" /\ ran' = <<"before_action">>
          /\ m = "action" => at' = "after_action" /\ ran' = <<"before_action", "action">>
          /\ m = "after_action" => at' = "save" /\ ran' = AllRan
      <3>1. /\ AfterMethod("before_action") = "action"
            /\ AfterMethod("action") = "after_action"
            /\ AfterMethod("after_action") = "save"
        BY DEF AfterMethod
      <3>2. /\ Append(<<>>, "before_action") = <<"before_action">>
            /\ Append(<<"before_action">>, "action") = <<"before_action", "action">>
            /\ Append(<<"before_action", "action">>, "after_action") = AllRan
        BY Appends DEF AllRan
      <3> QED BY <1>1, <1>5, <3>1, <3>2 DEF RanBefore, Goto
    <2>2. Working' /\ at' \in {"action", "after_action", "save"}
      BY <1>1, <1>2, <1>3, <1>4, <1>5, <2>1 DEF Working
    <2>3. RanBefore'
      BY <2>1, <2>2 DEF RanBefore
    <2> QED BY <1>1, <1>2, <2>2, <2>3 DEF DispatchInv, Places, Unrouted, Loading, Acting
  <1>6. CASE Fail(c.resp, "send")
    <2>1. sent = 0 /\ sent' = 0 /\ byPython' = FALSE
      BY <1>1, <1>2 DEF Working
    <2>2. c.resp.data \in Nat /\ (c.resp.data > 0 => wrote' > 0)
      BY <1>3, <1>4
    <2> QED BY <1>1, <1>2, <1>4, <1>6, <2>1, <2>2, FailDecides, ZenonT(30)
  <1> QED BY <1>3, <1>5, <1>6

\* The session is saved when all have returned.
LEMMA SaveKeeps ==
    ASSUME DispatchInv, SaveSession
    PROVE  DispatchInv'
  <1>1. Working /\ ran = AllRan /\ byPython = FALSE /\ at' = "send"
    BY DEF SaveSession, At, Goto, DispatchInv, RanBefore, Acting
  <1>2. UNCHANGED <<byPython, resp, sent, ran, failed, wrote>> /\ session' \in {"NULL", "saved"}
    BY <1>1 DEF SaveSession, response, Working
  <1>3. Outcome'
    BY <1>1, <1>2 DEF Working, Outcome
  <1> QED BY <1>1, <1>2, <1>3 DEF Working, DispatchInv, RanBefore, Places, Unrouted, Loading, Acting

\* The function returns.
LEMMA CleanupHolds ==
    ASSUME DispatchInv, Cleanup
    PROVE  DispatchInv'
  <1>1. Outcome /\ sent = 1 /\ byPython = FALSE /\ at' = "idle"
    BY DEF Cleanup, At, Goto, DispatchInv
  <1>2. UNCHANGED <<byPython, response, user>>
    BY DEF Cleanup
  <1> QED BY <1>1, <1>2 DEF response, user, DispatchInv, Outcome, RanBefore, Places, Unrouted, Loading, Acting

----------------------------------------------------------------------------
(* The theorems. *)

\* DispatchInv is inductive.
LEMMA StepKeeps == DispatchInv /\ [Next]_vars => DispatchInv'
  <1> SUFFICES ASSUME DispatchInv, [Next]_vars PROVE DispatchInv'
    OBVIOUS
  <1>1. CASE (\E r \in Pool : AddRouter(r)) \/ Start
    BY <1>1, ServerKeeps
  <1>2. CASE \E r \in Requests : OnMessageComplete(r) \/ ServerRoute(r)
    BY <1>2, BeginKeeps DEF OnMessageComplete, ServerRoute
  <1>3. CASE RouteBest \/ RouteCustom \/ RouteCustomEnd \/ AssertHandler
    BY <1>3, RoutingKeeps
  <1>4. CASE ReturnToPython
    BY <1>4, ReturnKeeps
  <1>5. CASE NotFound \/ Redirect \/ ServeStatic \/ ServeFile
    BY <1>5, ShortAnswersKeep
  <1>6. CASE FindPage
    BY <1>6, FindPageKeeps
  <1>7. CASE Import \/ Class \/ Construct
    BY <1>7, LoadingKeeps
  <1>8. CASE \E m \in {"before_action", "action", "after_action"} : Method(m)
    BY <1>8, MethodKeeps
  <1>9. CASE SaveSession \/ SendPage \/ Cleanup
    BY <1>9, SaveKeeps, SendPageKeeps, CleanupHolds
  <1>10. CASE UNCHANGED vars
    BY <1>10 DEF vars, response, user, DispatchInv, Fresh, Working, Outcome, RanBefore
  <1> QED BY <1>1, <1>2, <1>3, <1>4, <1>5, <1>6, <1>7, <1>8, <1>9, <1>10 DEF Next

LEMMA Invariant == Spec => []DispatchInv
  BY InitHolds, StepKeeps, PTL DEF Spec

\* Every dispatch that comes to its end has sent one answer, wherever the
\* application raised.
THEOREM OneAnswer == Spec => []AnsweredOnce
  <1>1. DispatchInv => AnsweredOnce
    BY DEF DispatchInv, Fresh, Working, AnsweredOnce, Answered, At, Places, Unrouted, Loading, Acting
  <1> QED BY <1>1, Invariant, PTL

\* The answer is 500 exactly if a step of the application failed.
THEOREM FailuresAnswered500 == Spec => []FailureIs500
  <1>1. DispatchInv => FailureIs500
    BY DEF DispatchInv, Outcome, FailureIs500, Answered, At
  <1> QED BY <1>1, Invariant, PTL

\* A session that was loaded is saved if and only if all methods returned.
THEOREM SessionsSavedLast == Spec => []SavedAfterAll
  <1>1. DispatchInv => SavedAfterAll
    BY DEF DispatchInv, Fresh, Working, Outcome, SavedAfterAll, Answered, At, AllRan,
           Places, Unrouted, Loading, Acting
  <1> QED BY <1>1, Invariant, PTL

\* What a controller has written is replaced by nothing but the text of a 500.
THEOREM DataKept == Spec => []DataLostOnlyByFailure
  <1>1. DispatchInv => DataLostOnlyByFailure
    BY NewIsResponse DEF DispatchInv, Fresh, Working, Outcome, DataLostOnlyByFailure,
           Places, Unrouted, Loading, Acting
  <1> QED BY <1>1, Invariant, PTL

----------------------------------------------------------------------------
(* Routing, step by step. *)

RouteTypes ==
    /\ routers \in Seq(Pool \cup {Default})
    /\ DOMAIN req = {"method", "url", "path"} /\ req.url \in Seq(Int)
    /\ nrouters \in Nat /\ next \in Nat /\ held \in Nat /\ lost \in Nat

Matched == BestRouter(routers, req.url) # 0

\* Two references are held only if a custom router has replaced a best match.
Replaced == held = 2 => IsCustom(holder) /\ Matched

\* The list is the one the call began with, and all routers route as guava does.
Unchanged == nrouters = Len(routers) /\ \A j \in DOMAIN routers : ~ routers[j].overrides

AtBest ==
    process = "up" /\ at = "best" =>
        /\ held = 0 /\ handler = NoHandler /\ holder = NoHolder
        /\ nrouters = Len(routers) /\ next = 1
        /\ byPython \/ req.path = Path(req.url)

\* A StaticHandler comes from a static router or the application.
StaticKnown == handler.kind = "static" => holder.type \in {"static", "custom"}

\* The loop has not passed a custom router that has the URL.
InLoop ==
    process = "up" /\ at = "custom" =>
        /\ held \in {0, 1} /\ (held = 1 => Matched) /\ (byPython => held = 1)
        /\ held = 0 => handler = NoHandler
        /\ StaticKnown
        /\ next >= 1 /\ Len(routers) <= nrouters
        /\ Unchanged =>
              /\ \A j \in DOMAIN routers :
                    j < next => ~ (IsCustom(routers[j]) /\ req.url \in DOMAIN routers[j].routes)
              /\ holder = IF Matched THEN routers[BestRouter(routers, req.url)] ELSE NoHolder

AtCheck ==
    at = "check" =>
        /\ held \in {0, 1, 2} /\ Replaced /\ (byPython => held >= 1)
        /\ held = 0 => handler = NoHandler
        /\ StaticKnown

Answering ==
    at \in Loading \cup Acting \cup {"send", "cleanup"} => held \in {1, 2} /\ Replaced

RouteInv ==
    /\ RouteTypes /\ AtBest /\ InLoop /\ AtCheck /\ Answering
    /\ SpecialRoutesFirst /\ DeathNeedsCause

\* The kinds of routers.
LEMMA KindsOfRouters ==
    ASSUME NEW r \in Pool \cup {Default}
    PROVE  /\ r.type \in {"mvc", "rest", "static", "custom"}
           /\ r.overrides \in BOOLEAN /\ (r.overrides => r.type = "custom")
  <1>1. Default.type = "static" /\ Default.overrides = FALSE
    BY DEF Default, StaticRouter, Builtin
  <1>2. CASE r \in Pool
    <2>1. \A q \in Pool : /\ q.type \in {"mvc", "rest", "static", "custom"}
                          /\ q.overrides \in BOOLEAN /\ (q.overrides => q.type = "custom")
      BY DispatchAssumption
    <2> QED BY <1>2, <2>1
  <1> QED BY <1>1, <1>2

\* What a route method makes.
LEMMA WhatRoutesGive ==
    ASSUME NEW r \in Pool \cup {Default}, NEW result \in Results(r)
    PROVE  /\ result.end \in {"handler", "none", "crash", "raise"}
           /\ result.end = "handler" /\ result.handler.kind = "static" => r.type \in {"static", "custom"}
           /\ r.type = "static" => result.end = "handler"
           /\ r.type = "mvc" => result.end = "handler" \/ (result.end = "none" /\ StrStr(req.path, r.mount) = 0)
           /\ r.type = "custom" /\ ~ r.overrides =>
                 \/ result.end = "handler" /\ req.url \in DOMAIN r.routes
                 \/ result.end = "none" /\ req.url \notin DOMAIN r.routes
  <1>1. r.type \in {"mvc", "rest", "static", "custom"} /\ (r.overrides => r.type = "custom")
    BY KindsOfRouters
  <1>2. /\ \A p : None(p).end = "none" /\ Crash(p).end = "crash"
        /\ \A h, p : Made(h, p).end = "handler" /\ Made(h, p).handler = h
    BY DEF None, Crash, Made
  <1>3. CASE r.overrides
    <2>1. result.end \in {"handler", "none", "raise"} /\ r.type = "custom"
      BY <1>1, <1>2, <1>3 DEF Results
    <2> QED BY <1>3, <2>1
  <1>4. CASE ~ r.overrides /\ r.type = "custom"
    <2>1. result = CustomRoute(r, req.url, req.path)
      BY <1>4 DEF Results, Route
    <2> QED BY <1>2, <1>4, <2>1 DEF CustomRoute
  <1>5. CASE ~ r.overrides /\ r.type = "static"
    <2>1. result = StaticRoute(req.path)
      BY <1>5 DEF Results, Route
    <2> QED BY <1>2, <1>5, <2>1 DEF StaticRoute
  <1>6. CASE ~ r.overrides /\ r.type = "mvc"
    <2>1. result = MVCRoute(r, req.path)
      BY <1>6 DEF Results, Route
    <2>2. \A seg : MVCHandler(seg).kind = "page"
      BY DEF MVCHandler
    <2>3. \/ result.end = "none" /\ StrStr(req.path, r.mount) = 0
          \/ result.end = "handler" /\ result.handler.kind = "page"
      BY <1>2, <2>1, <2>2 DEF MVCRoute
    <2> QED BY <1>6, <2>3
  <1>7. CASE ~ r.overrides /\ r.type = "rest"
    <2>1. result = RESTRoute(r, req.method, req.path)
      BY <1>7 DEF Results, Route
    <2>2. \A rest, slash :
            LET made == RESTHandler(r, req.method, req.path, rest, slash) IN
            made.end = "none" \/ (made.end = "handler" /\ made.handler.kind = "page")
      BY <1>2 DEF RESTHandler
    <2>3. \/ result.end \in {"none", "crash"}
          \/ result.end = "handler" /\ result.handler.kind = "page"
      BY <1>2, <2>1, <2>2 DEF RESTRoute
    <2> QED BY <1>7, <2>3
  <1> QED BY <1>1, <1>3, <1>4, <1>5, <1>6, <1>7

\* Routers that are added, and custom ones that are taken away, do not unmatch a URL.
LEMMA MatchedKept ==
    ASSUME NEW list \in Seq(Pool \cup {Default}), NEW longer \in Seq(Pool \cup {Default}),
           NEW url \in Seq(Int), BestRouter(list, url) # 0,
           \A j \in DOMAIN list : list[j].type = "custom" \/ \E k \in DOMAIN longer : longer[k] = list[j]
    PROVE  BestRouter(longer, url) # 0
  <1>1. PICK j \in DOMAIN list : Matches(list[j], url)
    BY BestRouterMatches
  <1>2. PICK k \in DOMAIN longer : longer[k] = list[j]
    BY <1>1 DEF Matches
  <1> QED BY <1>1, <1>2, BestRouterMatches

\* The list without its n-th router.
LEMMA RemoveAtRemoves ==
    ASSUME NEW S, NEW list \in Seq(S), NEW n \in 1 .. Len(list)
    PROVE  /\ RemoveAt(list, n) \in Seq(S) /\ Len(RemoveAt(list, n)) = Len(list) - 1
           /\ \A j \in DOMAIN list : j # n => \E k \in DOMAIN RemoveAt(list, n) : RemoveAt(list, n)[k] = list[j]
  <1> DEFINE before == SubSeq(list, 1, n - 1)
             after == SubSeq(list, n + 1, Len(list))
  <1>1. /\ before \in Seq(S) /\ Len(before) = n - 1 /\ \A j \in 1 .. n - 1 : before[j] = list[j]
        /\ after \in Seq(S) /\ Len(after) = Len(list) - n /\ \A j \in 1 .. Len(list) - n : after[j] = list[j + n]
    OBVIOUS
  <1> HIDE DEF before, after
  <1>2. RemoveAt(list, n) = before \o after
    BY DEF RemoveAt, before, after
  <1>3. before \o after \in Seq(S) /\ Len(before \o after) = Len(list) - 1
    BY <1>1
  <1>4. ASSUME NEW j \in DOMAIN list, j # n
        PROVE  \E k \in DOMAIN (before \o after) : (before \o after)[k] = list[j]
    <2>1. CASE j < n
      <3>1. j \in 1 .. n - 1 /\ j \in 1 .. Len(before) /\ j \in 1 .. Len(list) - 1
        BY <1>1, <2>1
      <3>2. (before \o after)[j] = before[j]
        BY <1>1, <3>1
      <3> QED BY <1>1, <1>3, <3>1, <3>2
    <2>2. CASE j > n
      <3>1. j - 1 \in 1 .. Len(list) - 1 /\ j - n \in 1 .. Len(list) - n /\ j - 1 > Len(before)
        BY <1>1, <2>2
      <3>2. (before \o after)[j - 1] = after[j - 1 - Len(before)]
        <4>1. j - 1 \in 1 .. Len(before) + Len(after) /\ ~ (j - 1 <= Len(before))
          BY <1>1, <3>1
        <4>2. \A i \in 1 .. Len(before) + Len(after) :
                (before \o after)[i] = IF i <= Len(before) THEN before[i] ELSE after[i - Len(before)]
          BY <1>1, ConcatProperties, Zenon
        <4> QED BY <4>1, <4>2, Zenon
      <3>3. j - 1 - Len(before) = j - n /\ after[j - n] = list[j]
        <4>1. j \in Nat /\ n \in Nat /\ j - n + n = j /\ j - 1 - (n - 1) = j - n
          OBVIOUS
        <4>2. after[j - n] = list[j - n + n]
          BY <1>1, <3>1
        <4> QED BY <1>1, <4>1, <4>2
      <3> QED BY <1>3, <3>1, <3>2, <3>3
    <2> QED BY <1>4, <2>1, <2>2
  <1> QED BY <1>2, <1>3, <1>4

\* Nothing is routed after the checks: the steps of an answer.
LEMMA AnsweringKeeps ==
    ASSUME RouteInv, UNCHANGED <<routers, routing, lost, byPython>>,
           at \in Loading \cup Acting \cup {"send", "cleanup"} \/ Checked,
           process' = "up", at' \in Loading \cup Acting \cup {"send", "cleanup"}
    PROVE  RouteInv'
  <1>1. held \in {1, 2} /\ Replaced
    BY DEF RouteInv, Answering, AtCheck, Checked, At
  <1>2. /\ at' # "best" /\ at' # "custom" /\ at' # "check"
    BY DEF Loading, Acting
  <1>3. RouteTypes' /\ Answering'
    BY <1>1 DEF RouteInv, RouteTypes, Answering, Replaced, Matched, routing
  <1> QED BY <1>2, <1>3 DEF RouteInv, AtBest, InLoop, AtCheck, SpecialRoutesFirst, DeathNeedsCause

\* The process ends where it stands.
LEMMA DyingKeeps ==
    ASSUME RouteInv, UNCHANGED <<routers, routing, lost, byPython, at>>, process' # "up", DeathNeedsCause'
    PROVE  RouteInv'
  BY DEF RouteInv, RouteTypes, Answering, Replaced, Matched, routing, AtBest, InLoop, AtCheck, StaticKnown,
         SpecialRoutesFirst

\* Everything behind the checks.
LEMMA RouteKeptByAnswers ==
    ASSUME RouteInv, \/ NotFound \/ Redirect \/ ServeStatic \/ ServeFile \/ FindPage
                     \/ Import \/ Class \/ Construct
                     \/ \E m \in {"before_action", "action", "after_action"} : Method(m)
                     \/ SaveSession \/ SendPage \/ AssertHandler
    PROVE  RouteInv'
  <1>1. CASE NotFound \/ Redirect \/ ServeStatic \/ ServeFile
    <2> DEFINE Sends == /\ Checked /\ process' = "up" /\ at' = "cleanup"
                        /\ UNCHANGED <<routers, routing, lost, byPython>>
               Unread == ServeStatic /\ Only(Die("crashed"))
    <2>1. Sends \/ Unread
      <3>1. CASE NotFound
        BY <3>1 DEF NotFound, Answer, Send, Goto, server, Checked, At
      <3>2. CASE Redirect
        BY <3>2 DEF Redirect, Send, Goto, server, Checked, At
      <3>3. CASE ServeStatic
        BY <3>3 DEF ServeStatic, ToStatic, Answer, Send, Goto, server, Checked, At
      <3>4. CASE ServeFile
        BY <3>4 DEF ServeFile, ToStatic, Send, Goto, server, Checked, At
      <3> QED BY <1>1, <3>1, <3>2, <3>3, <3>4
    <2>2. CASE Sends
      BY <2>2, AnsweringKeeps
    <2>3. CASE Unread
      <3>1. /\ process' = "crashed" /\ UNCHANGED at /\ at = "check" /\ holder.type = "static"
            /\ UNCHANGED <<routers, routing, lost, byPython>>
        BY <2>3 DEF ServeStatic, ToStatic, Only, Die, Checked, At, server
      <3>2. holder' = holder
        BY <3>1 DEF routing
      <3>3. DeathNeedsCause'
        BY <3>1, <3>2 DEF DeathNeedsCause
      <3> QED BY <3>1, <3>3, DyingKeeps
    <2> QED BY <2>1, <2>2, <2>3
  <1>2. CASE FindPage
    <2>1. /\ Checked /\ UNCHANGED <<routers, routing, lost, byPython>>
          /\ handler.kind \in {"page", "static"} /\ holder.type # "static"
      BY <1>2 DEF FindPage, Only, server
    <2>2. CASE handler.kind = "page"
      <3>1. process' = "up" /\ at' = "import"
        BY <1>2, <2>1, <2>2 DEF FindPage, Only, Goto, Checked, At
      <3> QED BY <2>1, <3>1, AnsweringKeeps DEF Loading
    <2>3. CASE handler.kind # "page"
      <3>1. process' = "crashed" /\ UNCHANGED at /\ at = "check"
        BY <1>2, <2>1, <2>3 DEF FindPage, Only, Die, Checked, At
      <3>2. IsCustom(holder) /\ handler.kind = "static"
        BY <2>1, <2>3, <3>1 DEF RouteInv, AtCheck, StaticKnown, IsCustom
      <3>3. IsCustom(holder') /\ handler'.kind = "static"
        BY <2>1, <3>2 DEF routing
      <3>4. DeathNeedsCause'
        BY <3>1, <3>3 DEF DeathNeedsCause
      <3> QED BY <2>1, <3>1, <3>4, DyingKeeps
    <2> QED BY <2>2, <2>3
  <1>3. CASE Import \/ Class \/ Construct
    <2>1. PICK here \in Loading, there \in Loading \cup {"before_action"} : LoadPage(here, there)
      BY <1>3 DEF Import, Class, Construct, Loading
    <2>2. process = "up" /\ at = here /\ UNCHANGED <<routers, routing, lost, byPython>>
      BY <2>1 DEF LoadPage, At, server
    <2>3. CASE process' = "up"
      <3>1. at' \in Loading \cup {"before_action", "send"}
        BY <2>1, <2>3 DEF LoadPage, Goto, Fail, Die
      <3> QED BY <2>2, <2>3, <3>1, AnsweringKeeps DEF Acting
    <2>4. CASE process' # "up"
      <3>1. at' = at /\ at = "construct"
        BY <2>1, <2>2, <2>4 DEF LoadPage, Goto, Fail, Die
      <3>2. DeathNeedsCause'
        BY <3>1 DEF DeathNeedsCause
      <3> QED BY <2>2, <2>4, <3>1, <3>2, DyingKeeps
    <2> QED BY <2>3, <2>4
  <1>4. ASSUME NEW m \in {"before_action", "action", "after_action"}, Method(m) PROVE RouteInv'
    <2>1. process = "up" /\ at \in Acting /\ UNCHANGED <<routers, routing, lost, byPython>>
      BY <1>4 DEF Method, CallMethod, At, Acting, server
    <2>2. process' = "up" /\ at' \in {AfterMethod(m), "send"}
      BY <1>4, <2>1 DEF Method, CallMethod, Goto, Fail
    <2>3. at' \in Acting \cup {"send"}
      BY <2>2 DEF AfterMethod, Acting
    <2> QED BY <2>1, <2>2, <2>3, AnsweringKeeps
  <1>5. CASE SaveSession
    <2>1. /\ process' = "up" /\ at = "save" /\ at' = "send" /\ UNCHANGED <<routers, routing, lost, byPython>>
      BY <1>5 DEF SaveSession, At, Goto, server
    <2> QED BY <2>1, AnsweringKeeps DEF Acting
  <1>6. CASE SendPage
    <2>1. /\ process' = "up" /\ at = "send" /\ at' = "cleanup" /\ UNCHANGED <<routers, routing, lost, byPython>>
      BY <1>6 DEF SendPage, Answer, Send, At, Goto, server
    <2> QED BY <2>1, AnsweringKeeps
  <1>7. CASE AssertHandler
    <2>1. /\ process' = "asserted" /\ UNCHANGED at /\ UNCHANGED <<routers, routing, lost, byPython>>
      BY <1>7 DEF AssertHandler, Only, Die, server
    <2>2. DeathNeedsCause'
      BY <2>1 DEF DeathNeedsCause
    <2> QED BY <2>1, <2>2, DyingKeeps
  <1> QED BY <1>1, <1>2, <1>3, <1>4, <1>5, <1>6, <1>7

\* A call begins, or ends.
LEMMA RouteKeptByCalls ==
    ASSUME RouteInv, \/ \E r \in Requests : OnMessageComplete(r) \/ ServerRoute(r)
                     \/ ReturnToPython \/ Cleanup
    PROVE  RouteInv'
  <1>1. ASSUME NEW r \in Requests, OnMessageComplete(r) \/ ServerRoute(r) PROVE RouteInv'
    <2>1. PICK python \in BOOLEAN :
            Begin(python) /\ (python \/ req' = NewRequest(r)) /\ (req' = req \/ req' = NewRequest(r))
      BY <1>1 DEF OnMessageComplete, ServerRoute
    <2>2. /\ process' = "up" /\ at' = "best" /\ byPython' = python /\ nrouters' = Len(routers) /\ next' = 1
          /\ handler' = NoHandler /\ holder' = NoHolder /\ held' = 0 /\ UNCHANGED <<routers, lost>>
      BY <2>1 DEF Begin, Goto, At, server
    <2>3. DOMAIN req' = {"method", "url", "path"} /\ req'.url \in Seq(Int)
      BY <2>1, DispatchAssumption DEF NewRequest, RouteInv, RouteTypes
    <2>4. RouteTypes'
      BY <2>2, <2>3 DEF RouteInv, RouteTypes
    <2>5. AtBest'
      BY <2>1, <2>2 DEF AtBest, NewRequest
    <2> QED BY <2>2, <2>4, <2>5
        DEF RouteInv, InLoop, AtCheck, Answering, Loading, Acting, SpecialRoutesFirst, DeathNeedsCause
  <1>2. CASE ReturnToPython \/ Cleanup
    <2>1. process' = "up" /\ at' = "idle" /\ UNCHANGED <<routers, routing>>
      BY <1>2 DEF ReturnToPython, Cleanup, At, Goto, server
    <2>2. lost' \in Nat
      <3>1. CASE lost' = lost
        BY <3>1 DEF RouteInv, RouteTypes
      <3>2. CASE lost' # lost
        <4>1. lost' = lost + held - 1 /\ held >= 1
          BY <1>2, <3>2 DEF ReturnToPython, Cleanup, At, RouteInv, AtCheck, Answering
        <4> QED BY <4>1 DEF RouteInv, RouteTypes
      <3> QED BY <3>1, <3>2
    <2>3. RouteTypes'
      BY <2>1, <2>2 DEF RouteInv, RouteTypes, routing
    <2> QED BY <2>1, <2>3
        DEF RouteInv, AtBest, InLoop, AtCheck, Answering, Loading, Acting, SpecialRoutesFirst, DeathNeedsCause
  <1> QED BY <1>1, <1>2

\* The list of routers grows between calls or under an action.
LEMMA RouteKeptByServer ==
    ASSUME RouteInv, (\E r \in Pool : AddRouter(r)) \/ Start
    PROVE  RouteInv'
  <1>1. /\ process = "up" /\ at \in {"idle", "action"} /\ UNCHANGED <<process, at, byPython, routing, lost>>
    BY DEF AddRouter, Start, At
  <1>2. \/ \E r \in Pool : routers' = Append(routers, r)
        \/ routers' = routers \/ (at = "idle" /\ routers' = <<Default>>)
    BY DEF AddRouter, Start, At
  <1>3. routers' \in Seq(Pool \cup {Default})
    <2>1. routers \in Seq(Pool \cup {Default})
      BY DEF RouteInv, RouteTypes
    <2>2. \A r \in Pool : Append(routers, r) \in Seq(Pool \cup {Default})
      BY <2>1
    <2>3. <<Default>> \in Seq(Pool \cup {Default})
      OBVIOUS
    <2> QED BY <1>2, <2>1, <2>2, <2>3
  <1>4. RouteTypes'
    BY <1>1, <1>3 DEF RouteInv, RouteTypes, routing
  <1>5. Answering'
    <2>1. CASE at = "action" /\ held = 2
      <3>1. IsCustom(holder) /\ Matched
        BY <2>1 DEF RouteInv, Answering, Acting, Replaced
      <3>2. \A j \in DOMAIN routers : \E k \in DOMAIN routers' : routers'[k] = routers[j]
        <4>1. routers \in Seq(Pool \cup {Default})
          BY DEF RouteInv, RouteTypes
        <4>2. ASSUME NEW r, routers' = Append(routers, r), NEW j \in DOMAIN routers
              PROVE  j \in DOMAIN routers' /\ routers'[j] = routers[j]
          BY <4>1, <4>2
        <4> QED BY <1>2, <2>1, <4>2
      <3>3. BestRouter(routers', req.url) # 0
        BY <1>3, <3>1, <3>2, MatchedKept DEF RouteInv, RouteTypes, Matched
      <3>4. Matched' /\ IsCustom(holder')
        BY <1>1, <3>1, <3>3 DEF Matched, routing
      <3> QED BY <1>1, <2>1, <3>4 DEF Answering, Replaced, routing
    <2>2. CASE ~ (at = "action" /\ held = 2)
      BY <1>1, <2>2 DEF RouteInv, Answering, Replaced, routing, Loading, Acting
    <2> QED BY <2>1, <2>2
  <1> QED BY <1>1, <1>4, <1>5 DEF RouteInv, AtBest, InLoop, AtCheck, SpecialRoutesFirst, DeathNeedsCause

\* What Take does.
LEMMA TakeTakes ==
    ASSUME RouteTypes, NEW r, NEW result, Take(r, result)
    PROVE  /\ DOMAIN req' = DOMAIN req /\ req'.url = req.url /\ req'.method = req.method
           /\ result.end = "handler" => handler' = result.handler /\ holder' = r /\ held' = held + 1
           /\ result.end # "handler" => UNCHANGED <<handler, holder, held>>
  BY DEF Take, RouteTypes

\* The best match is the one router that may be asked for anything but a handler.
LEMMA RouteBestKeeps ==
    ASSUME RouteInv, RouteBest
    PROVE  RouteInv'
  <1> DEFINE best == BestRouter(routers, req.url)
  <1>1. /\ process = "up" /\ at = "best" /\ UNCHANGED <<routers, nrouters, byPython, lost>>
        /\ held = 0 /\ handler = NoHandler /\ holder = NoHolder /\ nrouters = Len(routers) /\ next = 1
        /\ byPython \/ req.path = Path(req.url)
    BY DEF RouteBest, At, server, routing, RouteInv, AtBest
  <1>2. next' = 1
    BY <1>1 DEF RouteBest, routing
  <1>3. routers \in Seq(Pool \cup {Default}) /\ req.url \in Seq(Int) /\ RouteTypes
    BY DEF RouteInv, RouteTypes
  <1>4. CASE Fits(req.url) /\ best = 0
    <2>1. process' = "up" /\ at' = IF byPython THEN "none" ELSE "custom"
      BY <1>1, <1>4 DEF RouteBest, Goto
    <2>2. UNCHANGED <<req, handler, holder, held>>
      BY <1>4 DEF RouteBest, routing
    <2>3. RouteTypes'
      BY <1>1, <1>2, <1>3, <2>2 DEF RouteTypes
    <2>4. ~ Matched'
      BY <1>1, <1>4, <2>2 DEF Matched
    <2>5. StaticKnown'
      BY <1>1, <2>2 DEF StaticKnown, NoHandler
    <2>6. InLoop'
      <3>1. nrouters' = Len(routers') /\ Len(routers') <= nrouters'
        BY <1>1, <1>3
      <3> QED BY <1>1, <1>2, <1>3, <2>1, <2>2, <2>4, <2>5, <3>1 DEF InLoop, Unchanged
    <2> QED BY <2>1, <2>3, <2>6
        DEF RouteInv, AtBest, AtCheck, Answering, Loading, Acting, SpecialRoutesFirst, DeathNeedsCause
  <1>5. CASE Fits(req.url) /\ best # 0
    <2>1. best \in DOMAIN routers /\ Matches(routers[best], req.url)
      BY <1>3, <1>5, BestRouterMatches
    <2>2. routers[best] \in Pool \cup {Default} /\ routers[best].type \in {"mvc", "rest", "static"}
          /\ ~ routers[best].overrides
      BY <1>3, <2>1, KindsOfRouters DEF Matches
    <2>3. PICK result \in Results(routers[best]) :
            /\ Take(routers[best], result)
            /\ CASE result.end = "handler" -> Goto("custom")
                 [] result.end = "none" -> Die("undefined")
                 [] OTHER -> Die("crashed")
      BY <1>5 DEF RouteBest
    <2> HIDE DEF best
    <2>4. /\ DOMAIN req' = DOMAIN req /\ req'.url = req.url
          /\ result.end = "handler" => handler' = result.handler /\ holder' = routers[best] /\ held' = 1
          /\ result.end # "handler" => UNCHANGED <<handler, holder, held>>
      BY <1>1, <1>3, <2>3, TakeTakes
    <2>5. RouteTypes'
      BY <1>1, <1>2, <1>3, <2>4 DEF RouteTypes
    <2>6. CASE result.end = "handler"
      <3>1. process' = "up" /\ at' = "custom"
        BY <1>1, <2>3, <2>6 DEF Goto
      <3>2. Matched' /\ holder' = routers'[BestRouter(routers', req'.url)]
        BY <1>1, <1>5, <2>4, <2>6 DEF Matched, best
      <3>3. StaticKnown'
        BY <2>2, <2>4, <2>6, WhatRoutesGive DEF StaticKnown
      <3>4. InLoop'
        <4>1. nrouters' = Len(routers') /\ Len(routers') <= nrouters' /\ held' = 1
          BY <1>1, <1>3, <2>4, <2>6
        <4> QED BY <1>1, <1>2, <1>3, <3>1, <3>2, <3>3, <4>1 DEF InLoop, Unchanged
      <3> QED BY <2>5, <3>1, <3>4
          DEF RouteInv, AtBest, AtCheck, Answering, Loading, Acting, SpecialRoutesFirst, DeathNeedsCause
    <2>7. CASE result.end # "handler"
      <3>1. process' \in {"undefined", "crashed"} /\ at' = "best"
        BY <1>1, <2>3, <2>7 DEF Die
      <3>2. routers[best].type # "static"
        BY <2>2, <2>7, WhatRoutesGive
      <3>3. routers[best].type = "mvc" =>
              Contains(routers[best].mount, QM) \/ (byPython /\ req.path # Path(req.url))
        <4> SUFFICES ASSUME routers[best].type = "mvc", ~ Contains(routers[best].mount, QM), req.path = Path(req.url)
                     PROVE  FALSE
          BY <1>1
        <4>1. StrStr(req.path, routers[best].mount) = 0
          BY <2>2, <2>7, WhatRoutesGive
        <4>2. PICK i \in DOMAIN req.url : routers[best].mount = SubSeq(req.url, 1, i)
          BY <2>1 DEF Matches
        <4>3. StrStr(Path(req.url), SubSeq(req.url, 1, i)) = 1
          BY <1>3, <4>2, MountBeginsPath
        <4> QED BY <4>1, <4>2, <4>3
      <3>4. req'.url = req.url /\ req'.path = req.path
        <4>1. result.path = req.path
          BY <2>2, <2>7 DEF Results, Route, MVCRoute, RESTRoute, RESTHandler, StaticRoute, None, Crash, Made
        <4> QED BY <1>3, <2>3, <2>4, <4>1 DEF Take, RouteTypes
      <3>5. BestRouter(routers', req'.url) = best /\ routers' = routers /\ byPython' = byPython
        BY <1>1, <3>4 DEF best
      <3>6. DeathNeedsCause'
        BY <1>1, <2>2, <3>1, <3>2, <3>3, <3>4, <3>5 DEF DeathNeedsCause
      <3> QED BY <2>5, <3>1, <3>6
          DEF RouteInv, AtBest, InLoop, AtCheck, Answering, Loading, Acting, SpecialRoutesFirst
    <2> QED BY <2>6, <2>7
  <1>6. CASE ~ Fits(req.url)
    <2>1. process' = "undefined" /\ UNCHANGED <<at, routing>>
      BY <1>6 DEF RouteBest, Die
    <2>2. req' = req
      BY <2>1 DEF routing
    <2>3. DeathNeedsCause'
      BY <1>1, <1>6, <2>1, <2>2 DEF DeathNeedsCause, Fits
    <2> QED BY <1>1, <2>1, <2>3, DyingKeeps
  <1> QED BY <1>4, <1>5, <1>6

\* One round of the loop over the custom routers.
LEMMA RouteCustomKeeps ==
    ASSUME RouteInv, RouteCustom
    PROVE  RouteInv'
  <1>1. /\ process = "up" /\ at = "custom" /\ next <= nrouters /\ next' = next + 1
        /\ UNCHANGED <<nrouters, byPython, lost>>
    BY DEF RouteCustom, CustomRound, At
  <1>2. /\ held \in {0, 1} /\ (held = 1 => Matched) /\ (byPython => held = 1)
        /\ held = 0 => handler = NoHandler
        /\ StaticKnown
        /\ next >= 1 /\ Len(routers) <= nrouters
    BY <1>1 DEF RouteInv, InLoop
  <1>3. Unchanged =>
           /\ \A j \in DOMAIN routers :
                 j < next => ~ (IsCustom(routers[j]) /\ req.url \in DOMAIN routers[j].routes)
           /\ holder = IF Matched THEN routers[BestRouter(routers, req.url)] ELSE NoHolder
    BY <1>1 DEF RouteInv, InLoop
  <1>4. RouteTypes /\ routers \in Seq(Pool \cup {Default}) /\ req.url \in Seq(Int)
        /\ next \in Nat /\ nrouters \in Nat /\ Len(routers) \in Nat /\ DOMAIN routers = 1 .. Len(routers)
    BY DEF RouteInv, RouteTypes
  <1>5. CASE next > Len(routers)
    <2>1. process' = "crashed" /\ at' = "custom" /\ UNCHANGED <<routers, req, handler, holder, held>>
      BY <1>1, <1>5 DEF RouteCustom, CustomRound, Die
    <2>2. nrouters' > Len(routers')
      BY <1>1, <1>4, <1>5, <2>1
    <2>3. DeathNeedsCause'
      BY <2>1, <2>2 DEF DeathNeedsCause
    <2>4. RouteTypes'
      BY <1>1, <1>4, <2>1 DEF RouteTypes
    <2> QED BY <2>1, <2>3, <2>4
        DEF RouteInv, AtBest, InLoop, AtCheck, Answering, Loading, Acting, SpecialRoutesFirst
  <1>6. CASE next <= Len(routers) /\ ~ IsCustom(routers[next])
    <2>1. process' = "up" /\ at' = "custom" /\ UNCHANGED <<routers, req, handler, holder, held>>
      BY <1>1, <1>4, <1>6 DEF RouteCustom, CustomRound, Goto, IsCustom
    <2>2. RouteTypes'
      BY <1>1, <1>4, <2>1 DEF RouteTypes
    <2>3. Matched' = Matched /\ Unchanged' = Unchanged /\ StaticKnown' = StaticKnown
      BY <1>1, <2>1 DEF Matched, Unchanged, StaticKnown
    <2>4. Unchanged =>
            /\ \A j \in DOMAIN routers :
                  j < next + 1 => ~ (IsCustom(routers[j]) /\ req.url \in DOMAIN routers[j].routes)
      <3>1. \A j \in DOMAIN routers : j < next + 1 => j < next \/ j = next
        BY <1>4
      <3> QED BY <1>3, <1>6, <3>1
    <2>5. next' >= 1 /\ Len(routers') <= nrouters'
      BY <1>1, <1>2, <1>4, <2>1
    <2>6. InLoop'
      BY <1>1, <1>2, <1>3, <2>1, <2>3, <2>4, <2>5, Zenon DEF InLoop
    <2> QED BY <2>1, <2>2, <2>6
        DEF RouteInv, AtBest, AtCheck, Answering, Loading, Acting, SpecialRoutesFirst, DeathNeedsCause
  <1>7. CASE next <= Len(routers) /\ IsCustom(routers[next])
    <2>1. next \in DOMAIN routers /\ routers[next] \in Pool \cup {Default} /\ routers[next].type = "custom"
          /\ routers[next].overrides \in BOOLEAN
      BY <1>2, <1>4, <1>7, KindsOfRouters DEF IsCustom
    <2>2. PICK result \in Results(routers[next]) :
            /\ Take(routers[next], result)
            /\ routers' \in {routers} \cup (IF routers[next].overrides THEN {RemoveAt(routers, next)} ELSE {})
            /\ CASE result.end = "none" -> Goto("custom")
                 [] result.end = "handler" -> Goto("check")
                 [] OTHER -> Die("crashed")
      BY <1>1, <1>4, <1>7, <2>1 DEF RouteCustom, CustomRound
    <2>3. /\ DOMAIN req' = DOMAIN req /\ req'.url = req.url
          /\ result.end = "handler" => handler' = result.handler /\ holder' = routers[next] /\ held' = held + 1
          /\ result.end # "handler" => UNCHANGED <<handler, holder, held>>
      BY <1>4, <2>2, TakeTakes
    <2>4. routers' = routers \/ (routers' = RemoveAt(routers, next) /\ routers[next].overrides)
      BY <2>2
    <2>5. /\ routers' \in Seq(Pool \cup {Default}) /\ Len(routers') <= nrouters'
          /\ \A j \in DOMAIN routers : j = next \/ \E k \in DOMAIN routers' : routers'[k] = routers[j]
          /\ Len(routers') = nrouters' => routers' = routers
      <3>1. CASE routers' = routers
        BY <1>1, <1>2, <1>4, <3>1
      <3>2. CASE routers' = RemoveAt(routers, next)
        <4>1. /\ routers' \in Seq(Pool \cup {Default}) /\ Len(routers') = Len(routers) - 1
              /\ \A j \in DOMAIN routers : j # next => \E k \in DOMAIN routers' : routers'[k] = routers[j]
          <5>1. next \in 1 .. Len(routers)
            BY <1>4, <2>1
          <5> QED BY <1>4, <3>2, <5>1, RemoveAtRemoves, Zenon
        <4>2. Len(routers') <= nrouters' /\ Len(routers') # nrouters'
          <5>1. nrouters' = nrouters /\ Len(routers) <= nrouters /\ Len(routers') = Len(routers) - 1
            BY <1>1, <1>2, <4>1
          <5>2. \A a, b \in Nat : a <= b => a - 1 <= b /\ a - 1 # b
            OBVIOUS
          <5> QED BY <1>4, <5>1, <5>2, Zenon
        <4> QED BY <4>1, <4>2
      <3> QED BY <2>4, <3>1, <3>2
    <2>6. Matched => Matched'
      <3>1. \A j \in DOMAIN routers : routers[j].type = "custom" \/ \E k \in DOMAIN routers' : routers'[k] = routers[j]
        BY <2>1, <2>5
      <3>2. Matched => BestRouter(routers', req.url) # 0
        BY <1>4, <2>5, <3>1, MatchedKept DEF Matched
      <3> QED BY <2>3, <3>2 DEF Matched
    <2>7. Unchanged' => routers' = routers /\ Unchanged /\ ~ routers[next].overrides
      BY <1>1, <2>1, <2>5 DEF Unchanged
    <2>8. held' \in Nat
      BY <2>3, <1>4 DEF RouteTypes
    <2>9. RouteTypes'
      BY <1>1, <1>4, <2>3, <2>5, <2>8 DEF RouteTypes
    <2>10. result.end \in {"handler", "none", "crash", "raise"}
           /\ (~ routers[next].overrides =>
                  \/ result.end = "handler" /\ req.url \in DOMAIN routers[next].routes
                  \/ result.end = "none" /\ req.url \notin DOMAIN routers[next].routes)
      BY <2>1, WhatRoutesGive
    <2>11. CASE result.end = "none"
      <3>1. process' = "up" /\ at' = "custom" /\ UNCHANGED <<handler, holder, held>>
        BY <1>1, <2>2, <2>3, <2>11 DEF Goto
      <3>2. StaticKnown'
        BY <1>2, <3>1 DEF StaticKnown
      <3>3. Unchanged' =>
              /\ \A j \in DOMAIN routers' :
                    j < next' => ~ (IsCustom(routers'[j]) /\ req'.url \in DOMAIN routers'[j].routes)
              /\ holder' = IF Matched' THEN routers'[BestRouter(routers', req'.url)] ELSE NoHolder
        <4> SUFFICES ASSUME Unchanged'
                     PROVE  /\ \A j \in DOMAIN routers' :
                                   j < next' => ~ (IsCustom(routers'[j]) /\ req'.url \in DOMAIN routers'[j].routes)
                            /\ holder' = IF Matched' THEN routers'[BestRouter(routers', req'.url)] ELSE NoHolder
          OBVIOUS
        <4>1. routers' = routers /\ Unchanged /\ ~ routers[next].overrides
          BY <2>7
        <4>2. req.url \notin DOMAIN routers[next].routes
          BY <2>10, <2>11, <4>1
        <4>3. \A j \in DOMAIN routers : j < next + 1 => j < next \/ j = next
          BY <1>4
        <4>4. \A j \in DOMAIN routers :
                 j < next + 1 => ~ (IsCustom(routers[j]) /\ req.url \in DOMAIN routers[j].routes)
          BY <1>3, <4>1, <4>2, <4>3
        <4>5. holder' = IF Matched' THEN routers'[BestRouter(routers', req'.url)] ELSE NoHolder
          BY <1>3, <2>3, <3>1, <4>1 DEF Matched
        <4> QED BY <1>1, <2>3, <4>1, <4>4, <4>5
      <3>4. next' >= 1 /\ held' \in {0, 1} /\ (held' = 1 => Matched')
            /\ (byPython' => held' = 1) /\ (held' = 0 => handler' = NoHandler)
        BY <1>1, <1>2, <1>4, <2>6, <3>1
      <3>5. InLoop'
        BY <2>5, <3>2, <3>3, <3>4 DEF InLoop
      <3> QED BY <2>9, <3>1, <3>5
          DEF RouteInv, AtBest, AtCheck, Answering, Loading, Acting, SpecialRoutesFirst, DeathNeedsCause
    <2>12. CASE result.end = "handler"
      <3>1. process' = "up" /\ at' = "check" /\ holder' = routers[next] /\ held' = held + 1
        BY <1>1, <2>2, <2>3, <2>12 DEF Goto
      <3>2. held' \in {1, 2} /\ (held' = 2 => held = 1) /\ IsCustom(holder')
        BY <1>2, <1>7, <3>1
      <3>3. Replaced' /\ StaticKnown'
        BY <1>2, <2>6, <3>2 DEF Replaced, StaticKnown, IsCustom
      <3>4. AtCheck'
        BY <3>2, <3>3 DEF AtCheck
      <3>5. ASSUME Unchanged'
            PROVE  LET special == {j \in DOMAIN routers' : IsCustom(routers'[j]) /\ req'.url \in DOMAIN routers'[j].routes}
                   IN  special # {} /\ holder' = routers'[Min(special)]
        <4>1. routers' = routers /\ Unchanged /\ ~ routers[next].overrides
          BY <2>7, <3>5
        <4> DEFINE having == {j \in DOMAIN routers : IsCustom(routers[j]) /\ req.url \in DOMAIN routers[j].routes}
        <4>2. next \in having
          BY <1>7, <2>1, <2>10, <2>12, <4>1
        <4>3. \A j \in having : ~ (j < next)
          BY <1>3, <4>1
        <4>4. having \in SUBSET Nat
          BY <1>4
        <4>5. Min(having) \in having /\ Min(having) <= next
          BY <4>2, <4>4, LeastNumber
        <4>6. Min(having) = next
          BY <1>4, <4>3, <4>4, <4>5
        <4> QED BY <2>3, <3>1, <4>1, <4>2, <4>6
      <3>6. SpecialRoutesFirst'
        BY <3>5 DEF SpecialRoutesFirst, Unchanged
      <3> QED BY <2>9, <3>1, <3>4, <3>6
          DEF RouteInv, AtBest, InLoop, Answering, Loading, Acting, DeathNeedsCause
    <2>13. CASE result.end \in {"crash", "raise"}
      <3>1. process' = "crashed" /\ at' = "custom"
        BY <1>1, <2>2, <2>13 DEF Die
      <3>2. routers[next].overrides
        BY <2>1, <2>10, <2>13
      <3>3. nrouters' > Len(routers') \/ \E i \in 1 .. Len(routers') : i = next' - 1 /\ routers'[i].overrides
        <4>1. next' - 1 = next
          BY <1>1, <1>4
        <4>2. nrouters' > Len(routers') \/ routers' = routers
          BY <1>1, <1>4, <2>5
        <4>3. next \in 1 .. Len(routers)
          BY <1>4, <2>1
        <4> QED BY <3>2, <4>1, <4>2, <4>3
      <3>4. DeathNeedsCause'
        BY <3>1, <3>3 DEF DeathNeedsCause
      <3> QED BY <2>9, <3>1, <3>4
          DEF RouteInv, AtBest, InLoop, AtCheck, Answering, Loading, Acting, SpecialRoutesFirst
    <2> QED BY <2>10, <2>11, <2>12, <2>13
  <1> QED BY <1>4, <1>5, <1>6, <1>7

\* The loop ends: no custom router has the URL.
LEMMA RouteCustomEndKeeps ==
    ASSUME RouteInv, RouteCustomEnd
    PROVE  RouteInv'
  <1>1. /\ process' = "up" /\ at = "custom" /\ at' = "check" /\ next > nrouters
        /\ UNCHANGED <<routers, byPython, routing, lost>>
    BY DEF RouteCustomEnd, Only, At, Goto, server
  <1>2. InLoop /\ process = "up" /\ RouteTypes
    BY DEF RouteInv, RouteCustomEnd, At
  <1>3. RouteTypes'
    BY <1>1, <1>2 DEF RouteTypes, routing
  <1>4. /\ held \in {0, 1} /\ (byPython => held = 1) /\ (held = 0 => handler = NoHandler) /\ StaticKnown
    BY <1>1, <1>2 DEF InLoop
  <1>5. AtCheck'
    BY <1>1, <1>4 DEF AtCheck, Replaced, StaticKnown, routing
  <1>6. ASSUME Unchanged
        PROVE  /\ {j \in DOMAIN routers : IsCustom(routers[j]) /\ req.url \in DOMAIN routers[j].routes} = {}
               /\ holder = IF Matched THEN routers[BestRouter(routers, req.url)] ELSE NoHolder
    <2>1. nrouters = Len(routers)
      BY <1>6 DEF Unchanged
    <2>2. \A j \in DOMAIN routers : j < next
      BY <1>1, <1>2, <2>1 DEF RouteTypes
    <2> QED BY <1>1, <1>2, <1>6, <2>2 DEF InLoop
  <1>7. SpecialRoutesFirst'
    BY <1>1, <1>6, Zenon DEF SpecialRoutesFirst, Unchanged, Matched, routing
  <1> QED BY <1>1, <1>3, <1>5, <1>7 DEF RouteInv, AtBest, InLoop, Answering, Loading, Acting, DeathNeedsCause

LEMMA RouteInit == Init => RouteInv
  BY DEF Init, NoRequest, RouteInv, RouteTypes, AtBest, InLoop, AtCheck, Answering, Loading, Acting,
         SpecialRoutesFirst, DeathNeedsCause

\* RouteInv is inductive.
LEMMA RouteStep == RouteInv /\ [Next]_vars => RouteInv'
  <1> SUFFICES ASSUME RouteInv, [Next]_vars PROVE RouteInv'
    OBVIOUS
  <1>1. CASE (\E r \in Pool : AddRouter(r)) \/ Start
    BY <1>1, RouteKeptByServer
  <1>2. CASE (\E r \in Requests : OnMessageComplete(r) \/ ServerRoute(r)) \/ ReturnToPython \/ Cleanup
    BY <1>2, RouteKeptByCalls
  <1>3. CASE RouteBest \/ RouteCustom \/ RouteCustomEnd
    BY <1>3, RouteBestKeeps, RouteCustomKeeps, RouteCustomEndKeeps
  <1>4. CASE \/ NotFound \/ Redirect \/ ServeStatic \/ ServeFile \/ FindPage
             \/ Import \/ Class \/ Construct
             \/ \E m \in {"before_action", "action", "after_action"} : Method(m)
             \/ SaveSession \/ SendPage \/ AssertHandler
    BY <1>4, RouteKeptByAnswers
  <1>5. CASE UNCHANGED vars
    <2>1. UNCHANGED <<process, routers, at, byPython, req, nrouters, next, handler, holder, held, lost>>
      BY <1>5 DEF vars, server, routing
    <2> QED BY <2>1 DEF RouteInv, RouteTypes, AtBest, InLoop, AtCheck, Answering, Replaced, Matched, Unchanged,
               StaticKnown, SpecialRoutesFirst, DeathNeedsCause
  <1> QED BY <1>1, <1>2, <1>3, <1>4, <1>5 DEF Next

LEMMA RouteInvariant == Spec => []RouteInv
  BY RouteInit, RouteStep, PTL DEF Spec

\* Whatever routers there are, and however the route methods behave, a special
\* route precedes the mount points.
THEOREM SpecialRoutes == Spec => []SpecialRoutesFirst
  <1>1. RouteInv => SpecialRoutesFirst
    BY DEF RouteInv
  <1> QED BY <1>1, RouteInvariant, PTL

\* Between a complete request and its answer the process goes down for the
\* causes named in DeathNeedsCause, whatever the routers, URLs and handlers.
THEOREM DeathsHaveCauses == Spec => []DeathNeedsCause
  <1>1. RouteInv => DeathNeedsCause
    BY DEF RouteInv
  <1> QED BY <1>1, RouteInvariant, PTL

\* A handler is lost only under a custom router that has replaced the best match.
THEOREM OnlyReplacedAreLost == Spec => LostOnlyWhenReplaced
  <1>1. RouteInv /\ [Next]_vars => [lost' # lost => /\ lost' = lost + 1
                                                /\ IsCustom(holder)
                                                /\ BestRouter(routers, req.url) # 0]_vars
    <2> SUFFICES ASSUME RouteInv, Next, lost' # lost
                 PROVE  lost' = lost + 1 /\ IsCustom(holder) /\ BestRouter(routers, req.url) # 0
      BY DEF vars
    <2>1. ReturnToPython \/ Cleanup
      <3>1. ~ ((\E r \in Pool : AddRouter(r)) \/ Start)
        BY DEF AddRouter, Start
      <3>2. ~ (\E r \in Requests : OnMessageComplete(r) \/ ServerRoute(r))
        BY DEF OnMessageComplete, ServerRoute, Begin
      <3>3. ~ (RouteBest \/ RouteCustom \/ RouteCustomEnd \/ AssertHandler)
        BY DEF RouteBest, RouteCustom, CustomRound, RouteCustomEnd, AssertHandler, Only
      <3>4. ~ (NotFound \/ Redirect \/ ServeStatic \/ ServeFile \/ FindPage \/ SendPage)
        BY DEF NotFound, Redirect, ServeStatic, ServeFile, FindPage, SendPage, Answer, Only
      <3>5. ~ (Import \/ Class \/ Construct \/ SaveSession)
        BY DEF Import, Class, Construct, LoadPage, SaveSession
      <3>6. ~ (\E m \in {"before_action", "action", "after_action"} : Method(m))
        BY DEF Method, CallMethod
      <3> QED BY <3>1, <3>2, <3>3, <3>4, <3>5, <3>6 DEF Next
    <2>2. at \in {"check", "cleanup"} /\ lost' = lost + held - 1
      BY <2>1 DEF ReturnToPython, Cleanup, At
    <2>3. held \in {1, 2} /\ Replaced
      BY <2>1, <2>2 DEF ReturnToPython, Cleanup, At, RouteInv, AtCheck, Answering
    <2>4. lost \in Nat
      BY DEF RouteInv, RouteTypes
    <2>5. held = 2
      BY <2>2, <2>3, <2>4
    <2> QED BY <2>2, <2>3, <2>4, <2>5 DEF Replaced, Matched
  <1> QED BY <1>1, RouteInvariant, PTL DEF Spec, LostOnlyWhenReplaced

----------------------------------------------------------------------------
(* What goes over the wire. *)

\* The lines of kinds that are harmless, or that d tells of.
Clean(dict, d) == \A k \in DOMAIN dict : dict[k].kind \in {"fits"} \cup d

\* What an answer looks like after the application has done what is in d.
Heads(r, d) ==
    /\ ResponseOK(r) /\ IsFiniteSet(DOMAIN r.headers)
    /\ Clean(r.headers, d) /\ Clean(r.cookies, d)
    /\ Framing \cap DOMAIN r.headers \subseteq d
    /\ "status" \notin d => r.status \in {200, 303, 404, 500}

Sized(r) == "Content-Length" \in DOMAIN r.headers

Says(r) == r.headers["Content-Length"].number

\* The length is right, or there is a cause.
Agrees ==
    Sized(resp) => \/ Says(resp) = resp.data + resp.follows
                   \/ "short" \in did
                   \/ "Content-Length" \in did /\ (failed = TRUE \/ Says(resp) # wrote)

\* While the application is at work a length is its own, and no file follows.
OwnLength == resp.follows = 0 /\ (Sized(resp) => "Content-Length" \in did)

WireInv ==
    /\ at \in Unrouted \cup Loading => did = {}
    /\ at \in Acting => Heads(resp, did) /\ OwnLength
    /\ at \in {"send", "cleanup"} => Heads(resp, did) /\ Agrees
    /\ at = "idle" => byPython = TRUE \/ calls = 0 \/ (Heads(resp, did) /\ Agrees)

\* A clean entry keeps the others clean.
LEMMA PutClean ==
    ASSUME NEW dict, NEW d, Clean(dict, d), NEW key, NEW line, line.kind \in {"fits"} \cup d
    PROVE  Clean(Put(dict, key, line), d)
  <1>1. ASSUME NEW k \in DOMAIN Put(dict, key, line)
        PROVE  Put(dict, key, line)[k].kind \in {"fits"} \cup d
    <2>1. CASE k = key
      BY <1>1, <2>1 DEF Put
    <2>2. CASE k # key
      <3>1. k \in DOMAIN dict /\ Put(dict, key, line)[k] = dict[k]
        BY <1>1, <2>2 DEF Put
      <3> QED BY <3>1 DEF Clean
    <2> QED BY <2>1, <2>2
  <1> QED BY <1>1 DEF Clean

LEMMA SetHeaderSets ==
    ASSUME NEW r, ResponseOK(r), NEW h, NEW line
    PROVE  /\ SetHeader(r, h, line).headers = Put(r.headers, h, line)
           /\ SetHeader(r, h, line).cookies = r.cookies
           /\ SetHeader(r, h, line).follows = r.follows
  BY DEF SetHeader, ResponseOK

\* A header of a kind that is told of, with a name that is, spoils nothing.
LEMMA SetHeaderHeads ==
    ASSUME NEW r, NEW d, Heads(r, d), NEW h, NEW line, line.kind \in {"fits"} \cup d, h \in Framing => h \in d
    PROVE  Heads(SetHeader(r, h, line), d)
  <1> DEFINE s == SetHeader(r, h, line)
  <1>1. ResponseOK(r) /\ ResponseOK(s) /\ s.status = r.status
    BY SetHeaderKeeps DEF Heads
  <1>2. s.headers = Put(r.headers, h, line) /\ s.cookies = r.cookies
    BY <1>1, SetHeaderSets
  <1> HIDE DEF s
  <1>3. DOMAIN s.headers = DOMAIN r.headers \cup {h}
    BY <1>2 DEF Put
  <1>4. IsFiniteSet(DOMAIN s.headers)
    BY <1>3, FS_AddElement DEF Heads
  <1>5. Clean(s.headers, d) /\ Clean(s.cookies, d)
    BY <1>2, PutClean DEF Heads
  <1>6. Framing \cap DOMAIN s.headers \subseteq d
    BY <1>3 DEF Heads
  <1>7. Heads(s, d)
    BY <1>1, <1>4, <1>5, <1>6 DEF Heads
  <1> QED BY <1>7 DEF s

\* What leaves the headers and cookies alone.
LEMMA SameHeads ==
    ASSUME NEW r, NEW s, NEW d, Heads(r, d), ResponseOK(s), s.headers = r.headers, s.cookies = r.cookies,
           s.status = r.status \/ s.status \in {200, 303, 404, 500} \/ "status" \in d
    PROVE  Heads(s, d)
  BY DEF Heads

\* What an answer has after less, it has after more.
LEMMA HeadsAfterMore ==
    ASSUME NEW r, NEW d, NEW more, Heads(r, d), d \subseteq more
    PROVE  Heads(r, more)
  <1>1. \A dict : Clean(dict, d) => Clean(dict, more)
    BY DEF Clean
  <1> QED BY <1>1 DEF Heads

LEMMA TextFits == Text.kind = "fits" /\ \A n : Line(n).kind = "fits" /\ Line(n).number = n
  BY DEF Text, Line

\* A new response has the headers of guava.
LEMMA NewHeads ==
    ASSUME NEW d
    PROVE  Heads(NewResponse, d) /\ ~ Sized(NewResponse) /\ NewResponse.follows = 0 /\ NewResponse.data = 0
  <1>1. /\ DOMAIN NewResponse.headers = {"Server"} /\ NewResponse.headers["Server"].kind = "fits"
        /\ NewResponse.status = 200 /\ NewResponse.cookies = <<>>
    BY TextFits DEF NewResponse
  <1>2. Clean(NewResponse.headers, d) /\ Clean(NewResponse.cookies, d)
    BY <1>1 DEF Clean
  <1>3. Framing \cap DOMAIN NewResponse.headers = {}
    BY <1>1 DEF Framing
  <1> QED BY <1>1, <1>2, <1>3, NewIsResponse, FS_Singleton DEF Heads, Sized, NewResponse

\* Setting a header other than Content-Length leaves the length of the answer alone.
SameSize(r, s) ==
    /\ Sized(s) <=> Sized(r)
    /\ Sized(r) => Says(s) = Says(r)
    /\ s.follows = r.follows

LEMMA OtherHeaderKeepsSize ==
    ASSUME NEW r, ResponseOK(r), NEW h, h # "Content-Length", NEW line
    PROVE  SameSize(r, SetHeader(r, h, line))
  <1> DEFINE s == SetHeader(r, h, line)
  <1>1. s.headers = Put(r.headers, h, line) /\ s.follows = r.follows
    BY SetHeaderSets
  <1> HIDE DEF s
  <1>2. DOMAIN s.headers = DOMAIN r.headers \cup {h} /\ (Sized(r) => Says(s) = Says(r))
    BY <1>1 DEF Put, Sized, Says
  <1> QED BY <1>1, <1>2 DEF SameSize, Sized, s

\* The texts of 404 and 500.
LEMMA TextsHead ==
    ASSUME NEW r, NEW d, Heads(r, d)
    PROVE  /\ Heads(NotFoundAnswer(r), d) /\ SameSize(r, NotFoundAnswer(r))
           /\ Heads(ErrorAnswer(r), d) /\ SameSize(r, ErrorAnswer(r))
  <1>1. ResponseOK(r)
    BY DEF Heads
  <1>2. \A code, length : LET s == SetData(SetStatus(r, code), length) IN
                             s.headers = r.headers /\ s.cookies = r.cookies /\ s.follows = r.follows
    BY <1>1 DEF SetData, SetStatus, ResponseOK
  <1>3. \A s : s.headers = r.headers /\ s.follows = r.follows => SameSize(r, s)
    BY DEF SameSize, Sized, Says
  <1>4. /\ NotFoundAnswer(r).headers = r.headers /\ NotFoundAnswer(r).cookies = r.cookies
        /\ ErrorAnswer(r).headers = r.headers /\ ErrorAnswer(r).cookies = r.cookies
        /\ SameSize(r, NotFoundAnswer(r)) /\ SameSize(r, ErrorAnswer(r))
    BY <1>2, <1>3 DEF NotFoundAnswer, ErrorAnswer
  <1>5. Heads(NotFoundAnswer(r), d)
    BY <1>1, <1>4, NotFoundText, SameHeads
  <1>6. Heads(ErrorAnswer(r), d)
    BY <1>1, <1>4, ErrorText, SameHeads
  <1> QED BY <1>4, <1>5, <1>6

\* A redirection.
LEMMA RedirectHeads ==
    ASSUME NEW r, NEW d, Heads(r, d), NEW line, line.kind \in {"fits"} \cup d
    PROVE  Heads(RedirectAnswer(r, line), d) /\ SameSize(r, RedirectAnswer(r, line))
  <1> DEFINE s == SetStatus(r, 303)
  <1>1. /\ ResponseOK(r) /\ ResponseOK(s) /\ s.status = 303 /\ s.headers = r.headers
        /\ s.cookies = r.cookies /\ s.follows = r.follows
    <2>1. 303 % 65536 = 303
      OBVIOUS
    <2> QED BY <2>1 DEF Heads, SetStatus, ResponseOK
  <1>2. Heads(s, d)
    BY <1>1, SameHeads
  <1>3. SameSize(s, SetHeader(s, "Location", line))
    BY <1>1, OtherHeaderKeepsSize
  <1>4. Heads(SetHeader(s, "Location", line), d)
    BY <1>2, SetHeaderHeads DEF Framing
  <1>5. RedirectAnswer(r, line) = SetHeader(s, "Location", line)
    BY DEF RedirectAnswer
  <1> HIDE DEF s
  <1> QED BY <1>1, <1>3, <1>4, <1>5 DEF SameSize, Sized, Says

\* Sending.
LEMMA FinishedHeads ==
    ASSUME NEW r, NEW d, Heads(r, d)
    PROVE  Heads(Finished(r), d) /\ SameSize(r, Finished(r)) /\ Finished(r).data = r.data
  <1> DEFINE typed == IF "Content-Type" \in DOMAIN r.headers THEN r ELSE SetHeader(r, "Content-Type", Text)
  <1>1. ResponseOK(r) /\ Text.kind \in {"fits"} \cup d /\ "Content-Type" \notin Framing /\ "Connection" \notin Framing
    BY TextFits DEF Heads, Framing
  <1>2. SameSize(r, r)
    BY DEF SameSize
  <1>3. Heads(typed, d) /\ SameSize(r, typed) /\ typed.data = r.data
    BY <1>1, <1>2, SetHeaderHeads, OtherHeaderKeepsSize, SetHeaderKeeps
  <1> HIDE DEF typed
  <1>4. ResponseOK(typed)
    BY <1>3 DEF Heads
  <1> DEFINE s == SetHeader(typed, "Connection", Text)
  <1>5. Heads(s, d) /\ SameSize(typed, s) /\ s.data = typed.data
    BY <1>1, <1>3, <1>4, SetHeaderHeads, OtherHeaderKeepsSize, SetHeaderKeeps
  <1>6. Finished(r) = s
    BY DEF Finished, typed
  <1> HIDE DEF s
  <1> QED BY <1>3, <1>5, <1>6 DEF SameSize

\* What the application may call.
LEMMA CallsHead ==
    ASSUME Heads(resp, did), OwnLength, NEW c \in Calls
    PROVE  /\ Heads(c.resp, did \cup c.did) /\ c.resp.follows = 0
           /\ Sized(c.resp) => "Content-Length" \in did \cup c.did
  <1> DEFINE Good(r, d) == /\ Heads(r, did \cup d) /\ r.follows = 0
                           /\ Sized(r) => "Content-Length" \in did \cup d
  <1>1. ResponseOK(resp) /\ resp.follows = 0 /\ \A d : Heads(resp, did \cup d)
    BY HeadsAfterMore DEF Heads, OwnLength
  <1>2. ASSUME NEW r, ResponseOK(r), r.headers = resp.headers, r.cookies = resp.cookies,
               r.status = resp.status, r.follows = 0
        PROVE  Good(r, {})
    <2>1. Heads(r, did \cup {})
      BY <1>1, <1>2, SameHeads
    <2> QED BY <1>2, <2>1 DEF Sized, OwnLength
  <1>3. Good(resp, {}) /\ Good(Write(resp, 1), {})
    <2>1. /\ Write(resp, 1).headers = resp.headers /\ Write(resp, 1).follows = 0
          /\ Write(resp, 1).cookies = resp.cookies
      BY <1>1 DEF Write, ResponseOK
    <2> HIDE DEF Good
    <2> QED BY <1>1, <1>2, <2>1, WriteWrites
  <1>4. ASSUME NEW h, NEW line
        PROVE  Good(SetHeader(resp, h, line), Effects(h, line))
    <2> DEFINE d == did \cup Effects(h, line)
    <2>1. line.kind \in {"fits"} \cup d /\ (h \in Framing => h \in d)
      BY DEF Effects
    <2>2. h = "Content-Length" => "Content-Length" \in d
      BY DEF Effects
    <2>3. Heads(resp, d)
      BY <1>1
    <2>4. Sized(SetHeader(resp, h, line)) => h = "Content-Length" \/ Sized(resp)
      <3> DEFINE s == SetHeader(resp, h, line)
      <3>1. s.headers = Put(resp.headers, h, line)
        BY <1>1, SetHeaderSets
      <3> HIDE DEF s
      <3>2. DOMAIN s.headers = DOMAIN resp.headers \cup {h}
        BY <3>1 DEF Put
      <3> QED BY <3>2 DEF Sized, s
    <2>5. "Content-Length" \in did => "Content-Length" \in d
      OBVIOUS
    <2> HIDE DEF d
    <2>6. Heads(SetHeader(resp, h, line), d)
      BY <2>1, <2>3, SetHeaderHeads
    <2>7. SetHeader(resp, h, line).follows = 0
      BY <1>1, SetHeaderSets
    <2>8. Sized(SetHeader(resp, h, line)) => "Content-Length" \in d
      BY <2>2, <2>4, <2>5 DEF OwnLength
    <2> QED BY <2>6, <2>7, <2>8 DEF d
  <1>5. ASSUME NEW code
        PROVE  Good(SetStatus(resp, code), {"status"})
    <2> DEFINE s == SetStatus(resp, code)
               d == did \cup {"status"}
    <2>1. s.headers = resp.headers /\ s.cookies = resp.cookies /\ s.follows = 0
      BY <1>1 DEF SetStatus, ResponseOK
    <2>2. ResponseOK(s) /\ "status" \in d
      BY <1>1, SetStatusSets
    <2>3. Heads(resp, d)
      BY <1>1
    <2> HIDE DEF s, d
    <2>4. Heads(s, d)
      BY <2>1, <2>2, <2>3, SameHeads
    <2> QED BY <2>1, <2>4 DEF Sized, OwnLength, s, d
  <1>6. ASSUME NEW line
        PROVE  Good(SetCookie(resp, "name", line), Effects("name", line))
    <2> DEFINE s == SetCookie(resp, "name", line)
               d == did \cup Effects("name", line)
    <2>1. /\ s.headers = resp.headers /\ s.cookies = Put(resp.cookies, "name", line) /\ s.follows = 0
          /\ s.status = resp.status
      BY <1>1 DEF SetCookie, ResponseOK
    <2>2. ResponseOK(s) /\ Heads(resp, d) /\ line.kind \in {"fits"} \cup d
      BY <1>1, SetCookieKeeps DEF Effects
    <2> HIDE DEF s
    <2>3. Clean(s.cookies, d)
      BY <2>1, <2>2, PutClean DEF Heads
    <2>4. Heads(s, d)
      BY <2>1, <2>2, <2>3 DEF Heads
    <2>5. Sized(s) => "Content-Length" \in d
      BY <2>1 DEF Sized, OwnLength
    <2> QED BY <2>1, <2>4, <2>5 DEF s
  <1>7. ASSUME NEW line
        PROVE  Good(RedirectAnswer(resp, line), Effects("Location", line))
    <2> DEFINE d == did \cup Effects("Location", line)
    <2>1. Heads(resp, d) /\ line.kind \in {"fits"} \cup d
      BY <1>1 DEF Effects
    <2>2. "Content-Length" \in did => "Content-Length" \in d
      OBVIOUS
    <2> HIDE DEF d
    <2>3. Heads(RedirectAnswer(resp, line), d) /\ SameSize(resp, RedirectAnswer(resp, line))
      BY <2>1, RedirectHeads
    <2>4. RedirectAnswer(resp, line).follows = 0 /\ (Sized(RedirectAnswer(resp, line)) => "Content-Length" \in d)
      BY <1>1, <2>2, <2>3 DEF SameSize, OwnLength
    <2> QED BY <2>3, <2>4 DEF d
  <1>8. Good(c.resp, c.did)
    <2> HIDE DEF Good
    <2>1. c \in Writes
      BY DEF Calls
    <2> QED BY <1>3, <1>4, <1>5, <1>6, <1>7, <2>1 DEF Writes
  <1> QED BY <1>8

\* An answer with these headers may be sent.
LEMMA SendWires ==
    ASSUME NEW answer, Send(answer, "cleanup"), Heads(answer, did'), UNCHANGED <<failed, wrote>>,
           Sized(answer) => \/ Says(answer) = answer.data + answer.follows
                            \/ "short" \in did'
                            \/ "Content-Length" \in did' /\ (failed = TRUE \/ Says(answer) # wrote)
    PROVE  WireInv'
  <1>1. at' = "cleanup" /\ resp' = Finished(answer)
    BY DEF Send, Goto
  <1>2. Heads(resp', did') /\ SameSize(answer, resp') /\ resp'.data = answer.data
    BY <1>1, FinishedHeads
  <1>3. Agrees'
    BY <1>2 DEF Agrees, SameSize
  <1> QED BY <1>1, <1>2, <1>3 DEF WireInv, Unrouted, Loading, Acting

\* What a file says of its length, and what there is of it.
LEMMA FileWires ==
    ASSUME NEW r, NEW d, Heads(r, d), r.data = 0, NEW size \in Nat, NEW passed \in Nat
    PROVE  /\ Heads(FileAnswer(r, size, passed), d) /\ Says(FileAnswer(r, size, passed)) = size
           /\ FileAnswer(r, size, passed).data = 0 /\ FileAnswer(r, size, passed).follows = passed
  <1> DEFINE typed == SetHeader(r, "Content-Type", Text)
             sized == SetHeader(typed, "Content-Length", Line(size))
             file == FileAnswer(r, size, passed)
  <1>1. Text.kind \in {"fits"} \cup d /\ Line(size).kind \in {"fits"} \cup d /\ Line(size).number = size
        /\ "Content-Type" \notin Framing /\ "Content-Length" \notin Framing
    BY TextFits DEF Framing
  <1>2. Heads(typed, d) /\ typed.data = 0
    BY <1>1, SetHeaderHeads, SetHeaderKeeps DEF Heads
  <1> HIDE DEF typed
  <1>3. Heads(sized, d) /\ sized.data = 0 /\ sized.headers = Put(typed.headers, "Content-Length", Line(size))
    <2>1. ResponseOK(typed)
      BY <1>2 DEF Heads
    <2>2. sized.data = 0 /\ sized.headers = Put(typed.headers, "Content-Length", Line(size))
      BY <1>2, <2>1, SetHeaderKeeps, SetHeaderSets
    <2> QED BY <1>1, <1>2, <2>2, SetHeaderHeads
  <1> HIDE DEF sized
  <1>4. file = [sized EXCEPT !.follows = passed]
    BY DEF FileAnswer, sized, typed
  <1> HIDE DEF file
  <1>5. /\ file.headers = sized.headers /\ file.cookies = sized.cookies /\ file.data = 0
        /\ file.follows = passed /\ file.status = sized.status /\ ResponseOK(file)
    BY <1>3, <1>4 DEF Heads, ResponseOK
  <1>6. Heads(file, d)
    BY <1>3, <1>5, SameHeads
  <1>7. file.headers["Content-Length"] = Line(size)
    BY <1>3, <1>5 DEF Put
  <1>8. Says(file) = size
    BY <1>1, <1>7 DEF Says
  <1> QED BY <1>5, <1>6, <1>8 DEF file

LEMMA ShortAnswersWire ==
    ASSUME DispatchInv, WireInv, NotFound \/ Redirect \/ ServeStatic \/ ServeFile
    PROVE  WireInv'
  <1>1. at = "check" /\ Fresh /\ did = {} /\ UNCHANGED <<failed, wrote>>
    BY DEF NotFound, Redirect, ServeStatic, ServeFile, ToStatic, Only, Answer, user, Checked, At, DispatchInv,
           WireInv, Unrouted
  <1>2. /\ resp = NewResponse /\ ResponseOK(resp) /\ resp.data = 0 /\ ~ Sized(resp) /\ resp.follows = 0
        /\ \A d : Heads(resp, d)
    BY <1>1, NewHeads, NewIsResponse DEF Fresh
  <1>3. ASSUME did' = did, Send(NotFoundAnswer(resp), "cleanup") PROVE WireInv'
    <2>1. Heads(NotFoundAnswer(resp), did') /\ ~ Sized(NotFoundAnswer(resp))
      BY <1>2, TextsHead DEF SameSize
    <2> QED BY <1>1, <1>3, <2>1, SendWires
  <1>4. CASE NotFound
    <2>1. Send(NotFoundAnswer(resp), "cleanup") /\ did' = did
      BY <1>4 DEF NotFound, Answer, user
    <2> QED BY <1>3, <2>1
  <1>5. CASE Redirect
    <2>1. PICK line : Send(RedirectAnswer(resp, line), "cleanup") /\ did' = Effects("Location", line)
      BY <1>5 DEF Redirect
    <2>2. line.kind \in {"fits"} \cup did' /\ Heads(resp, did')
      BY <1>2, <2>1 DEF Effects
    <2>3. Heads(RedirectAnswer(resp, line), did') /\ ~ Sized(RedirectAnswer(resp, line))
      BY <1>2, <2>2, RedirectHeads DEF SameSize
    <2> QED BY <1>1, <2>1, <2>3, SendWires
  <1>6. ASSUME NEW length, did' = did, Send(ListingAnswer(resp, length), "cleanup") PROVE WireInv'
    <2> DEFINE typed == SetHeader(resp, "Content-Type", Text)
               listing == ListingAnswer(resp, length)
    <2>1. Text.kind \in {"fits"} \cup did' /\ "Content-Type" \notin Framing /\ Heads(resp, did')
      BY <1>2, TextFits DEF Framing
    <2>2. Heads(typed, did') /\ SameSize(resp, typed) /\ ResponseOK(typed)
      BY <1>2, <2>1, SetHeaderHeads, OtherHeaderKeepsSize, SetHeaderKeeps
    <2> HIDE DEF typed
    <2>3. listing = SetData(typed, length)
      BY DEF ListingAnswer, typed
    <2> HIDE DEF listing
    <2>4. /\ listing.headers = typed.headers /\ listing.cookies = typed.cookies /\ ResponseOK(listing)
          /\ listing.status = typed.status
      BY <2>2, <2>3 DEF SetData, ResponseOK
    <2>5. Heads(listing, did') /\ ~ Sized(listing)
      BY <1>2, <2>2, <2>4, SameHeads DEF SameSize, Sized
    <2> QED BY <1>1, <1>6, <2>5, SendWires DEF listing
  <1>7. CASE ServeStatic
    <2>1. did' = did
      BY <1>7 DEF ServeStatic, Answer, Only, user
    <2>2. \/ Send(NotFoundAnswer(resp), "cleanup")
          \/ \E length : Send(ListingAnswer(resp, length), "cleanup")
          \/ Only(Die("crashed"))
      BY <1>7 DEF ServeStatic, Answer
    <2>3. CASE Only(Die("crashed"))
      BY <1>1, <2>1, <2>3 DEF Only, Die, WireInv, Unrouted, Loading, Acting
    <2> QED BY <1>3, <1>6, <2>1, <2>2, <2>3
  <1>8. CASE ServeFile
    <2>1. PICK size \in {0, 3}, passed \in Nat :
            /\ passed \in 0 .. size
            /\ Send(FileAnswer(resp, size, passed), "cleanup")
            /\ did' = IF passed < size THEN {"short"} ELSE {}
      BY <1>8 DEF ServeFile
    <2> DEFINE file == FileAnswer(resp, size, passed)
    <2>2. /\ Heads(file, did') /\ Says(file) = size /\ file.data = 0 /\ file.follows = passed
      <3>1. Heads(resp, did') /\ resp.data = 0 /\ size \in Nat
        BY <1>2
      <3> QED BY <2>1, <3>1, FileWires
    <2>3. Says(file) = file.data + file.follows \/ "short" \in did'
      BY <2>1, <2>2
    <2> HIDE DEF file
    <2>4. Send(file, "cleanup")
      BY <2>1 DEF file
    <2> QED BY <1>1, <2>2, <2>3, <2>4, SendWires
  <1> QED BY <1>4, <1>5, <1>7, <1>8

\* A failed step: the text of the 500 behind the headers of what there was.
LEMMA FailWires ==
    ASSUME NEW answer, Heads(answer, did'), Fail(answer, "send"),
           Sized(answer) => "Content-Length" \in did'
    PROVE  WireInv'
  <1>1. at' = "send" /\ resp' = ErrorAnswer(answer) /\ failed' = TRUE
    BY DEF Fail, Goto
  <1>2. Heads(resp', did') /\ SameSize(answer, resp')
    BY <1>1, TextsHead
  <1>3. Agrees'
    BY <1>1, <1>2 DEF Agrees, SameSize
  <1> QED BY <1>1, <1>2, <1>3 DEF WireInv, Unrouted, Loading, Acting

LEMMA PageWires ==
    ASSUME DispatchInv, WireInv,
           \/ Import \/ Class \/ Construct
           \/ \E m \in {"before_action", "action", "after_action"} : Method(m)
           \/ SaveSession \/ SendPage
    PROVE  WireInv'
  <1>1. CASE Import \/ Class \/ Construct
    <2>1. PICK here \in Loading, there \in Loading \cup {"before_action"} : LoadPage(here, there)
      BY <1>1 DEF Import, Class, Construct, Loading
    <2>2. at = here /\ Fresh /\ did = {} /\ UNCHANGED <<byPython, did, wrote>>
      BY <2>1 DEF LoadPage, At, DispatchInv, WireInv
    <2>3. Heads(resp, did') /\ ~ Sized(resp) /\ resp.follows = 0
      BY <2>2, NewHeads DEF Fresh
    <2>4. CASE Goto(there) /\ UNCHANGED <<failed, resp>>
      <3>1. OwnLength' /\ Heads(resp', did')
        BY <2>2, <2>3, <2>4 DEF OwnLength, Sized
      <3> QED BY <2>1, <2>2, <2>4, <3>1 DEF Goto, WireInv, Unrouted, Loading, Acting
    <2>5. CASE Fail(resp, "send")
      BY <2>3, <2>5, FailWires
    <2>6. CASE Die("crashed") /\ UNCHANGED <<failed, resp>>
      BY <2>1, <2>2, <2>6 DEF Die, WireInv, Unrouted, Loading, Acting
    <2> QED BY <2>1, <2>4, <2>5, <2>6 DEF LoadPage
  <1>2. ASSUME NEW m \in {"before_action", "action", "after_action"}, Method(m) PROVE WireInv'
    <2>1. Heads(resp, did) /\ OwnLength
      BY <1>2 DEF Method, CallMethod, At, WireInv, Acting
    <2>2. PICK c \in Calls :
            /\ did' = did \cup c.did
            /\ \/ Goto(AfterMethod(m)) /\ resp' = c.resp
               \/ Fail(c.resp, "send")
      BY <1>2 DEF Method, CallMethod
    <2>3. /\ Heads(c.resp, did') /\ c.resp.follows = 0
          /\ Sized(c.resp) => "Content-Length" \in did'
      BY <2>1, <2>2, CallsHead
    <2>4. CASE Goto(AfterMethod(m)) /\ resp' = c.resp
      <3>1. at' \in {"action", "after_action", "save"}
        BY <2>4 DEF Goto, AfterMethod
      <3>2. OwnLength'
        BY <2>3, <2>4 DEF OwnLength, Sized
      <3> QED BY <2>3, <2>4, <3>1, <3>2 DEF WireInv, Unrouted, Loading, Acting
    <2>5. CASE Fail(c.resp, "send")
      BY <2>3, <2>5, FailWires
    <2> QED BY <2>2, <2>4, <2>5
  <1>3. CASE SaveSession
    <2>1. /\ at = "save" /\ at' = "send" /\ Working /\ Heads(resp, did) /\ OwnLength
          /\ UNCHANGED <<resp, did, failed, wrote>>
      BY <1>3 DEF SaveSession, At, Goto, response, WireInv, DispatchInv, Acting
    <2>2. resp.data + resp.follows = wrote
      BY <2>1 DEF Working, OwnLength
    <2>3. Agrees'
      BY <2>1, <2>2 DEF Agrees, OwnLength, Sized, Says
    <2> QED BY <2>1, <2>3 DEF WireInv, Unrouted, Loading, Acting
  <1>4. CASE SendPage
    <2>1. Send(resp, "cleanup") /\ Heads(resp, did) /\ Agrees /\ UNCHANGED <<did, failed, wrote>>
      BY <1>4 DEF SendPage, Answer, At, user, WireInv
    <2> QED BY <2>1, SendWires DEF Agrees
  <1> QED BY <1>1, <1>2, <1>3, <1>4

\* Steps that do not touch the answer.
LEMMA QuietWires ==
    ASSUME DispatchInv, WireInv,
           \/ (\E r \in Pool : AddRouter(r)) \/ Start
           \/ \E r \in Requests : OnMessageComplete(r) \/ ServerRoute(r)
           \/ RouteBest \/ RouteCustom \/ RouteCustomEnd \/ ReturnToPython \/ AssertHandler
           \/ FindPage \/ Cleanup
    PROVE  WireInv'
  <1>1. CASE (\E r \in Pool : AddRouter(r)) \/ Start
    <2>1. UNCHANGED <<at, calls, byPython, resp, did, failed, wrote>>
      BY <1>1 DEF AddRouter, Start, response, user
    <2> QED BY <2>1 DEF WireInv, Agrees, OwnLength, Sized, Says
  <1>2. CASE \E r \in Requests : OnMessageComplete(r) \/ ServerRoute(r)
    BY <1>2 DEF OnMessageComplete, ServerRoute, Begin, Goto, WireInv, Unrouted, Loading, Acting
  <1>3. CASE RouteBest \/ RouteCustom \/ RouteCustomEnd \/ AssertHandler \/ FindPage
    <2>1. /\ at \in {"best", "custom", "check"} /\ at' \in {"best", "none", "custom", "check", "import"}
          /\ UNCHANGED did
      <3>1. CASE RouteBest
        BY <3>1 DEF RouteBest, At, Goto, Die, user
      <3>2. CASE RouteCustom
        BY <3>2 DEF RouteCustom, CustomRound, At, Goto, Die, user
      <3>3. CASE RouteCustomEnd \/ AssertHandler
        BY <3>3 DEF RouteCustomEnd, AssertHandler, Only, At, Goto, Die, user
      <3>4. CASE FindPage
        BY <3>4 DEF FindPage, Checked, Only, At, Goto, Die, user
      <3> QED BY <1>3, <3>1, <3>2, <3>3, <3>4
    <2> QED BY <2>1 DEF WireInv, Unrouted, Loading, Acting
  <1>4. CASE ReturnToPython
    <2>1. at' = "idle" /\ byPython' = TRUE
      BY <1>4 DEF ReturnToPython, Goto, DispatchInv
    <2> QED BY <2>1 DEF WireInv, Unrouted, Loading, Acting
  <1>5. CASE Cleanup
    <2>1. at' = "idle" /\ Heads(resp, did) /\ Agrees /\ UNCHANGED <<resp, did, failed, wrote>>
      BY <1>5 DEF Cleanup, At, Goto, response, user, WireInv
    <2>2. Agrees' /\ Heads(resp', did')
      BY <2>1 DEF Agrees, Sized, Says
    <2> QED BY <2>1, <2>2 DEF WireInv, Unrouted, Loading, Acting
  <1> QED BY <1>1, <1>2, <1>3, <1>4, <1>5

\* WireInv is inductive, given DispatchInv.
LEMMA WireStep == DispatchInv /\ WireInv /\ [Next]_vars => WireInv'
  <1> SUFFICES ASSUME DispatchInv, WireInv, [Next]_vars PROVE WireInv'
    OBVIOUS
  <1>1. CASE Next
    BY <1>1, ShortAnswersWire, PageWires, QuietWires DEF Next
  <1>2. CASE UNCHANGED vars
    <2>1. UNCHANGED <<at, calls, byPython, resp, did, failed, wrote>>
      BY <1>2 DEF vars, response, user
    <2> QED BY <2>1 DEF WireInv, Agrees, OwnLength, Sized, Says
  <1> QED BY <1>1, <1>2

LEMMA WireInit == Init => WireInv
  BY DEF Init, WireInv, Unrouted, Loading, Acting

\* Without a line that is too long nothing is swallowed.
LEMMA NothingSwallowed ==
    ASSUME NEW r, IsFiniteSet(DOMAIN r.headers), LongLines(r) = {}, NEW lines \in Swallowed(r)
    PROVE  lines = {}
  <1>1. Cardinality(lines) = Cardinality(LongLines(r)) /\ lines \in SUBSET (DOMAIN r.headers \cup {Behind(r)})
    BY DEF Swallowed
  <1>2. IsFiniteSet(lines)
    BY <1>1, FS_AddElement, FS_Subset
  <1> QED BY <1>1, <1>2, FS_EmptySet

\* An answer is misread only for the causes named.
THEOREM MisreadsHaveCauses == Spec => []MisreadNeedsCause
  <1>1. DispatchInv /\ WireInv => MisreadNeedsCause
    <2> SUFFICES ASSUME WireInv, DispatchInv, Answered, req.method \notin {"HEAD", "CONNECT"},
                        did \cap ({"short", "long", "crlf"} \cup Framing) = {},
                        ~ ("status" \in did /\ resp.status \notin (200 .. 999) \ {204, 304}),
                        ~ ("Content-Length" \in did /\ (failed \/ Says(resp) # wrote))
                 PROVE  Understood(resp, req.method)
      BY DEF MisreadNeedsCause, Says
    <2>1. Heads(resp, did) /\ Agrees /\ failed \in BOOLEAN
      BY DEF Answered, At, WireInv, DispatchInv, Outcome, Fresh
    <2>2. resp.status \in (200 .. 999) \ {204, 304}
      BY <2>1 DEF Heads
    <2>3. resp.status \in 100 .. 999 /\ ~ Headless(resp, req.method)
      <3>1. PICK code : code = resp.status
        OBVIOUS
      <3>2. code \in Int /\ code >= 200 /\ code <= 999 /\ code \notin {204, 304}
        BY <2>2, <3>1
      <3>3. code \in 100 .. 999 /\ code \notin (100 .. 199) \cup {204, 304}
        BY <3>2
      <3>4. req.method # "HEAD" /\ req.method # "CONNECT"
        OBVIOUS
      <3>5. ~ Headless(resp, req.method)
        BY ONLY <3>1, <3>3, <3>4, Zenon DEF Headless
      <3> QED BY ONLY <3>1, <3>3, <3>5
    <2>4. /\ \A h \in DOMAIN resp.headers : resp.headers[h].kind \notin {"long", "crlf"}
          /\ \A c \in DOMAIN resp.cookies : resp.cookies[c].kind \notin {"long", "crlf"}
      BY <2>1 DEF Heads, Clean
    <2>5. LongLines(resp) = {} /\ IsFiniteSet(DOMAIN resp.headers)
      BY <2>1, <2>4 DEF Heads, LongLines
    <2>6. Unbroken(resp)
      BY <2>4 DEF Unbroken, SentCookies
    <2>7. Framing \cap DOMAIN resp.headers = {}
      BY <2>1 DEF Heads
    <2>8. Sized(resp) => Says(resp) = resp.data + resp.follows
      BY <2>1 DEF Agrees
    <2>9. ASSUME NEW lines \in Swallowed(resp) PROVE lines = {}
      BY <2>5, NothingSwallowed
    <2> QED BY <2>3, <2>6, <2>7, <2>8, <2>9 DEF Understood, Sized, Says
  <1> QED BY <1>1, WireInit, WireStep, Invariant, PTL DEF Spec
============================================================================
