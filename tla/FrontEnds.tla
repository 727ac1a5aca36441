----------------------------- MODULE FrontEnds -----------------------------
(***************************************************************************)
(* How the lab is entered: the MCP server over a framed byte stream, the   *)
(* solo agent's session directory, and the orientation report that binds   *)
(* repository files to a gate run while they may change.                   *)
(***************************************************************************)
EXTENDS Procedures, Integers, Sequences, FiniteSets

CONSTANTS
    MaxFrames,      \* frames a host sends
    GitHeads,       \* commits the checkout may be at
    MaxSoloSteps,   \* events in the life of a session directory
    MaxFileEdits    \* edits of repository files during one orientation

ASSUME FrontEndsAssumption ==
    MaxFrames \in Nat /\ MaxSoloSteps \in Nat /\ MaxFileEdits \in Nat /\ GitHeads # {}
-----------------------------------------------------------------------------
(***************************************************************************)
(* The MCP server.  A message is what dispatch looks at; a request's id is *)
(* its place in the stream, and 0 stands for a message without one.        *)
(***************************************************************************)
\* What a tool may answer: a status of its own, or an error it raises.
ToolOutcomes ==
    [list_capabilities   |-> {"SUCCESS"},
     inspect_capability  |-> {"SUCCESS", "raise"},
     validate_claim      |-> {"SUCCESS", "INVALID", "raise"},
     build_plan          |-> {"SUCCESS", "INVALID", "WAIT_REMOTE_EXECUTOR", "raise"},
     inspect_run         |-> {"SUCCESS", "raise"},
     search_knowledge    |-> {"SUCCESS", "NETWORK_POLICY_VIOLATION", "RESOURCE_LIMIT",
                              "WAIT_RESOURCE", "TIMEOUT", "WAIT_ENVIRONMENT", "raise", "bug"},
     build_export_packet |-> {"WAIT_CAPABILITY"}]

P0_TOOLS == DOMAIN ToolOutcomes

\* _is_mutation: a word of the name is a mutating one, and the name is neither
\* a meta method nor a listed tool.
MutationNames == {"run.execute", "claims/delete"}
UnknownNames  == {"frobnicate"}

Message(version, method, name, args, outcome, note) ==
    [version |-> version, method |-> method, name |-> name, args |-> args,
     outcome |-> outcome, note |-> note]

McpMessages ==
    {Message(v, m, "none", a, "none", n) :
        v \in BOOLEAN, a \in BOOLEAN, n \in BOOLEAN,
        m \in {"initialize", "tools/list", "not a string"} \cup MutationNames \cup UnknownNames}
    \cup UNION {{Message(TRUE, "tools/call", t, TRUE, o, FALSE) : o \in ToolOutcomes[t]} :
                   t \in P0_TOOLS}
    \cup {Message(TRUE, "tools/call", t, a, "SUCCESS", n) :
             t \in {"none", "build_plan"} \cup MutationNames \cup UnknownNames,
             a \in BOOLEAN, n \in BOOLEAN}

\* _handle_tools_call; a name, then a listed tool, then arguments.
ToolsCall(m) ==
    IF m.name = "none" THEN "-32602"
    ELSE IF m.name \notin P0_TOOLS THEN "-32601"
    ELSE IF ~m.args THEN "-32602"
    ELSE CASE m.outcome = "raise" -> "-32601"
           [] m.outcome = "bug"   -> "-32603"
           [] OTHER               -> IF m.outcome = "SUCCESS" THEN "result" ELSE "isError"

\* dispatch and _dispatch_meta: the answers, none for a well-formed note.
Dispatch(m) ==
    IF ~m.version \/ m.method = "not a string" THEN {"-32600"}
    ELSE IF m.note THEN {}
    ELSE IF m.method \in MutationNames THEN {"-32601"}
    ELSE IF ~m.args /\ m.method # "tools/call" THEN {"-32602"}
    ELSE {IF m.method = "tools/call" THEN ToolsCall(m)
          ELSE IF m.method \in {"initialize", "tools/list"} THEN "result" ELSE "-32601"}

\* A frame is a header and a body.  The header declares the body's length, one
\* beyond the cap, or none that can be read; a body is a message or not JSON.
McpFrames ==
    {[head |-> "ok", sent |-> TRUE, message |-> {m}] : m \in McpMessages}
    \cup {[head |-> "ok", sent |-> TRUE, message |-> {}]}
    \cup {[head |-> h, sent |-> s, message |-> {}] :
             h \in {"oversized", "malformed"}, s \in BOOLEAN}

McpInit ==
    /\ subject = "mcp"
    /\ \E n \in 0 .. MaxFrames : \E stream \in [1 .. n -> McpFrames], cut \in BOOLEAN :
           st = [stream |-> stream, cut |-> cut, at |-> 1, left |-> FALSE, initialized |-> FALSE,
                 replies |-> <<>>, done |-> FALSE]

Reply(id, code) == [id |-> id, code |-> code]

\* The stream ends: cleanly, or in the middle of what is being read.
ReadEnd ==
    /\ ~st.done /\ st.at > Len(st.stream)
    /\ Step("mcp", IF st.left THEN [st EXCEPT !.left = FALSE,
                                              !.replies = Append(@, Reply(0, "-32700"))]
                              ELSE [st EXCEPT !.done = TRUE])

\* _read_frame refuses a header and leaves the body unread: the next read then
\* takes those bytes for the start of a header, whose length it cannot find.
RefuseHeader ==
    /\ ~st.done /\ st.at <= Len(st.stream)
    /\ LET f == st.stream[st.at]
       IN  /\ st.left \/ f.head # "ok"
           /\ Step("mcp", [st EXCEPT !.at = @ + 1, !.left = f.sent,
                  !.replies = Append(@, Reply(0, IF ~st.left /\ f.head = "oversized"
                                                 THEN "-32600" ELSE "-32700"))])

\* A body that is cut short or is no JSON object is consumed and refused.
RefuseBody ==
    /\ ~st.done /\ st.at <= Len(st.stream) /\ ~st.left
    /\ LET f == st.stream[st.at]
       IN  /\ f.head = "ok"
           /\ f.message = {} \/ (st.cut /\ st.at = Len(st.stream))
           /\ Step("mcp", [st EXCEPT !.at = @ + 1, !.replies = Append(@, Reply(0, "-32700"))])

ServeMessage ==
    /\ ~st.done /\ st.at <= Len(st.stream) /\ ~st.left
    /\ LET f == st.stream[st.at]
       IN  /\ f.head = "ok" /\ ~(st.cut /\ st.at = Len(st.stream))
           /\ \E m \in f.message :
                Step("mcp", [st EXCEPT !.at = @ + 1,
                    !.initialized = @ \/ (m.method = "initialize" /\ Dispatch(m) = {"result"}),
                    !.replies = IF Dispatch(m) = {} THEN @
                                ELSE Append(@, Reply(IF m.note THEN 0 ELSE st.at,
                                                     CHOOSE c \in Dispatch(m) : TRUE))])

McpNext == subject = "mcp" /\ (ReadEnd \/ RefuseHeader \/ RefuseBody \/ ServeMessage)
-----------------------------------------------------------------------------
(***************************************************************************)
(* The solo agent.  A session directory holds session.json, the capability *)
(* manifest and result.json, written one after the other and straight to   *)
(* their names; session and result are known by the commit they were made  *)
(* at.  st.submit is the submission under way, if any, st.reads the caller *)
(* who is reading the directory.  A process runs the code of the checkout  *)
(* it reports, and what that code makes of the task, the six fields that a *)
(* replay compares, is st.computes: two commits may make the same of it.   *)
(***************************************************************************)
SoloInit ==
    /\ subject = "solo"
    /\ \E h \in GitHeads, c \in [GitHeads -> {"this", "that"}] :
           st = [head |-> h, steps |-> 0, computes |-> c, session |-> {}, result |-> {},
                 submit |-> {}, torn |-> FALSE, reads |-> {}, answers |-> {}, replays |-> {}]

SoloStep(new) == st.steps < MaxSoloSteps /\ Step("solo", [new EXCEPT !.steps = st.steps + 1])

\* Somebody checks out another commit.
CheckOutOther == \E h \in GitHeads \ {st.head} : SoloStep([st EXCEPT !.head = h])

\* submit_session: the checkout is read once, the files written in order.
SubmitStart ==
    /\ st.submit = {}
    /\ SoloStep([st EXCEPT !.submit = {[head |-> st.head, pc |-> "session"]}])

\* A caller who has read the session and not yet the result sees the directory
\* change between its two reads.
Disturbed(reads) == {[q EXCEPT !.whole = @ /\ q.result # {}] : q \in reads}

SubmitWriteSession ==
    \E s \in st.submit :
        /\ s.pc = "session"
        /\ SoloStep([st EXCEPT !.session = {s.head}, !.torn = TRUE, !.reads = Disturbed(@),
                               !.submit  = {[s EXCEPT !.pc = "result"]}])

SubmitWriteResult ==
    \E s \in st.submit :
        /\ s.pc = "result"
        /\ SoloStep([st EXCEPT !.result = {s.head}, !.torn = FALSE, !.reads = Disturbed(@),
                               !.submit = {}])

SubmitKilled == st.submit # {} /\ SoloStep([st EXCEPT !.submit = {}])

\* Wrong variant: the session's head is not compared.
FreshAnyHead(session, head) == TRUE

\* checkout_report and _assert_fresh_session, in the lab's own checkout
Fresh(session, head) == session = head

\* session_status, session_result (and from it the export and the portal) and
\* replay_session begin alike: session.json is read, then result.json, then the
\* checkout.  Nothing compares the session a result names with the session.
ReadSession(use) ==
    /\ st.reads = {}
    /\ \E s \in st.session :
           Step("solo", [st EXCEPT !.reads = {[use |-> use, session |-> s, result |-> {},
                                               whole |-> ~st.torn]}])

ReadResult ==
    \E q \in st.reads :
        /\ q.result = {}
        /\ Step("solo", [st EXCEPT !.reads = IF st.result = {} THEN {}
                                             ELSE {[q EXCEPT !.result = st.result]}])

SoloStale ==
    \E q \in st.reads :
        /\ q.result # {} /\ ~Fresh(q.session, st.head)
        /\ Step("solo", [st EXCEPT !.reads = {}])

SoloAnswer ==
    \E q \in st.reads : \E r \in q.result :
        /\ q.use = "answer" /\ Fresh(q.session, st.head)
        /\ Step("solo", [st EXCEPT !.reads = {},
               !.answers = {[session |-> q.session, result |-> r, at |-> st.head,
                             whole |-> q.whole]}])

\* replay_session recomputes the task with the code at hand and compares six
\* fields, none of which names the session or the commit.
ReplayMatches(result, head, computes) == computes[head] = computes[result]

SoloReplay ==
    \E q \in st.reads : \E r \in q.result :
        /\ q.use = "replay" /\ Fresh(q.session, st.head)
        /\ Step("solo", [st EXCEPT !.reads = {},
               !.replays = {[whole |-> q.whole,
                             is |-> IF ReplayMatches(r, st.head, st.computes)
                                    THEN "REPLAY_MATCH" ELSE "REPLAY_MISMATCH"]}])

SoloNext ==
    /\ subject = "solo"
    /\ \/ CheckOutOther \/ SubmitStart \/ SubmitWriteSession \/ SubmitWriteResult \/ SubmitKilled
       \/ \E use \in {"answer", "replay"} : ReadSession(use)
       \/ ReadResult \/ SoloStale \/ SoloAnswer \/ SoloReplay
-----------------------------------------------------------------------------
(***************************************************************************)
(* The federation orientation report.  Repository files have versions,     *)
(* version 1 being the sound one; the gate's manifest records the versions *)
(* it verified.                                                            *)
(***************************************************************************)
OrientFiles == {"gate", "sources", "policy", "release", "plan"}
OrientOrder == <<"gate", "sources", "policy", "release", "plan">>

OrientInit ==
    /\ subject = "orient"
    /\ \E bad \in SUBSET OrientFiles :
           st = [files |-> [f \in OrientFiles |-> IF f \in bad THEN 2 ELSE 1], edits |-> 0,
                 script |-> {}, manifest |-> {}, next |-> 2, raw |-> {}, used |-> <<>>,
                 status |-> "running"]

\* Somebody edits a file.
EditRepoFile ==
    /\ st.edits < MaxFileEdits /\ st.status = "running"
    /\ \E f \in OrientFiles, v \in {1, 2} :
           /\ v # st.files[f]
           /\ Step("orient", [st EXCEPT !.files[f] = v, !.edits = @ + 1])

OrientFail(cause) == Step("orient", [st EXCEPT !.status = cause])

\* _run_doctrine_gate: the script is read, run, and read again.  The gate
\* passes only sound files, and reports the versions it saw.
ReadGateScript ==
    /\ st.status = "running" /\ st.script = {}
    /\ Step("orient", [st EXCEPT !.script = {st.files["gate"]}])

RunGate ==
    /\ st.status = "running" /\ st.script # {} /\ st.manifest = {}
    /\ IF \A f \in OrientFiles : st.files[f] = 1
       THEN Step("orient", [st EXCEPT !.manifest = {st.files}])
       ELSE OrientFail("gate did not PASS")

\* The manifest names the script that was read before and is there still; a
\* file is then read once for its content and again before it is believed.
ReadOnce ==
    /\ st.status = "running" /\ st.raw = {} /\ st.next <= Len(OrientOrder)
    /\ \E m \in st.manifest :
           IF st.next = 2 /\ (m["gate"] \notin st.script \/ st.files["gate"] \notin st.script)
           THEN OrientFail("gate changed")
           ELSE Step("orient", [st EXCEPT !.raw = {st.files[OrientOrder[st.next]]}])

\* _read_stable_bytes, _load_stable_json and the comparison with the manifest.
Binds(raw, now, verified) == raw = now /\ raw = verified

ReadAgain ==
    \E raw \in st.raw, m \in st.manifest :
        LET f == OrientOrder[st.next]
        IN  IF st.status = "running" /\ Binds(raw, st.files[f], m[f])
            THEN Step("orient", [st EXCEPT !.raw = {}, !.used = Append(@, raw),
                                           !.next = @ + 1])
            ELSE st.status = "running" /\ OrientFail("changed after verification")

\* The receipts of the recorded stages are bound by their own ids.
Orient ==
    /\ st.status = "running" /\ st.next > Len(OrientOrder)
    /\ Step("orient", [st EXCEPT !.status = "ORIENTED_READ_ONLY"])

OrientNext ==
    /\ subject = "orient"
    /\ EditRepoFile \/ ReadGateScript \/ RunGate \/ ReadOnce \/ ReadAgain \/ Orient

FrontEndsInit == McpInit \/ SoloInit \/ OrientInit
FrontEndsNext == McpNext \/ SoloNext \/ OrientNext
-----------------------------------------------------------------------------
(***************************************************************************)
(* Properties.                                                             *)
(***************************************************************************)
\* Whether message m of frame f is a request the server has to answer.
IsRequest(f) == f.head = "ok" /\ \E m \in f.message : ~m.note

\* Requests are answered once each, with their ids and in order, and notes not
\* at all, for as long as no frame has been refused at its header (serve,
\* dispatch).
McpAnswersInOrder ==
    subject = "mcp" /\ (\A i \in 1 .. st.at - 1 : st.stream[i].head = "ok") =>
        LET answered == {i \in DOMAIN st.replies : st.replies[i].id # 0}
            due      == {i \in 1 .. st.at - 1 :
                            /\ IsRequest(st.stream[i])
                            /\ ~(st.cut /\ i = Len(st.stream))}
        IN  /\ {st.replies[i].id : i \in answered} = due
            /\ \A i, j \in answered : i < j => st.replies[i].id < st.replies[j].id
            /\ \A i \in DOMAIN st.replies \ answered :
                   st.replies[i].code \in {"-32700", "-32600"}

\* An answer about a session is given only in a checkout of the commit the
\* session was made at, and with that very session's result, unless a
\* submission was cut short before or wrote between the two reads: the files
\* are then of two sessions, and nobody notices (_assert_fresh_session,
\* session_result, submit_session).
SoloAnswerIsFresh ==
    subject = "solo" =>
        \A a \in st.answers : a.session = a.at /\ (a.whole => a.result = a.session)

\* A mismatch is evidence of a directory of two sessions: the files of one
\* session always replay, whatever was checked out in between.  The converse is
\* not so, and is not claimed: a match does not say that the result is the
\* session's, or the commit's (replay_session).
WholeSessionReplays ==
    subject = "solo" => \A r \in st.replays : r.whole => r.is = "REPLAY_MATCH"

\* An orientation report rests on the very contents the gate verified, whatever
\* is edited while it is being made (federation_orientation_report).
OrientationIsVerified ==
    subject = "orient" /\ st.status = "ORIENTED_READ_ONLY" =>
        \A i \in DOMAIN st.used, m \in st.manifest : st.used[i] = m[OrientOrder[i + 1]]

\* Every answer a front end gives is for this request, this code and this head.
AnswersCurrent ==
    /\ McpAnswersInOrder
    /\ SoloAnswerIsFresh
    /\ WholeSessionReplays
    /\ OrientationIsVerified
=============================================================================
