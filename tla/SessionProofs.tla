---------------------------- MODULE SessionProofs ----------------------------
(***************************************************************************)
(* Proofs about the session service, for every set of user actions, every  *)
(* number of events and every number of comment slots.                     *)
(*                                                                         *)
(* A command is a script of steps.  The invariant is written as a control  *)
(* flow graph: what may follow a step, and what holds at the step control  *)
(* is about to take.                                                       *)
(***************************************************************************)
EXTENDS Session, FiniteSetTheorems, SequenceTheorems, TLAPS

-----------------------------------------------------------------------------
(***************************************************************************)
(* The control flow.                                                       *)
(***************************************************************************)

\* The step control is about to take; "rest" between two commands.
Point == IF todo = <<>> THEN "rest" ELSE Head(todo)

\* Step a of a script may be followed by b, or by its end.
Leads(a, b) ==
  \/ a = "source" /\ b = "joinSource"
  \/ a = "joinSource" /\ b = "pipeline"
  \/ a = "pipeline" /\ b = "engine"
  \/ a = "engine" /\ b \in {"idle", "error", "finish", "current", "renew", "again", "rest"}
  \/ a = "current" /\ b = "save"
  \/ a = "save" /\ b = "prepare"
  \/ a = "renew" /\ b \in {"prepare", "source"}
  \/ a = "again" /\ b = "prepare"
  \/ a = "prepare" /\ b = "ready"
  \/ a = "ready" /\ b = "check"
  \/ a = "check" /\ b = "create"
  \/ a = "create" /\ b \in {"open", "running"}
  \/ a = "running" /\ b \in {"receiveTest", "rest"}
  \/ a \in {"receive", "receiveTest"} /\ b = "submit"
  \/ a = "submit" /\ b \in {"release", "rest"}
  \/ a = "stopping" /\ b = "source"
  \/ a \in {"open", "idle", "error", "finish", "release", "up", "down", "cancel"} /\ b = "rest"

\* The steps of a script follow one another, and its last one leads to end.
Linked(script, end) ==
  /\ script \in Seq(Step)
  /\ \A i \in 1..Len(script) : Leads(script[i], IF i < Len(script) THEN script[i + 1] ELSE end)

StepsOf(script) == {script[i] : i \in 1..Len(script)}

Has(step) == step \in StepsOf(todo)

-----------------------------------------------------------------------------
(***************************************************************************)
(* The inductive invariant.                                                *)
(***************************************************************************)

\* What the script under way is.
Script ==
  /\ Linked(todo, "rest")
  /\ Has("current") => intent > 0
  /\ Has("again") => session > 0
  /\ Has("finish") => cmd.kind = "shutdown"
  /\ Has("release") => cmd.kind = "comment" /\ Point \in {"receive", "submit", "release"}

\* Tokens only grow: none is above the intent, none that was read from a
\* source is above the session, and what is prepared is never older than it.
Tokens ==
  /\ session <= intent /\ click <= intent /\ muted <= intent /\ cmd.token <= intent
  /\ reader.token <= session
  /\ gui = "start" => intent > 0
  /\ \A i \in DOMAIN commands :
       /\ commands[i].token <= intent
       /\ commands[i].kind = "comment" => commands[i].token <= session
       /\ commands[i].kind = "start" => intent > 0
       /\ commands[i].kind = "connection" => commands[i].arg \in {"up", "down"}
  /\ Point = "receive" => cmd.token <= session
  /\ Point = "submit" => cmd.token = session
  /\ Point \in {"save", "prepare"} => cmd.token >= session /\ cmd.token > 0
  /\ Point \in {"ready", "check", "create", "open"} => cmd.token = session /\ cmd.token > 0

\* The pipeline is the session's; it is there when the script relies on it
\* and gone when the script replaces it.
Pipelines ==
  /\ pipeline # NoPipeline => pipeline.token = session /\ session > 0
  /\ Point \in {"engine", "current", "save", "renew", "again", "prepare", "ready", "check",
                "create", "idle", "error", "finish"} => pipeline = NoPipeline
  /\ Point \in {"running", "open"} => pipeline # NoPipeline

Rebuilding == {"pipeline", "engine", "again", "prepare", "ready", "check", "create"}

\* The source is the session's, and is served unless it is being closed or
\* the script is the one that replaces the pipeline behind it.
Sources ==
  /\ source # 0 =>
       /\ source = session
       /\ Point \notin Rebuilding \cup {"source"} => pipeline # NoPipeline /\ engine
       /\ Point \in Rebuilding => cmd.kind = "engine" /\ ~Has("open")
       /\ Point = "pipeline" => 3 <= Len(todo) /\ todo[3] = "again"
       /\ Point = "engine" => 2 <= Len(todo) /\ todo[2] = "again"
       /\ Point = "prepare" => cmd.token = session
  /\ Point \in {"joinSource", "current", "save", "renew", "open", "idle", "error", "finish"}
       => source = 0
  /\ Point \in {"up", "down"} => source # 0
  /\ source = 0 => reader.pc = "gone" \/ Point = "joinSource"

\* An engine without a pipeline is one being prepared, or being closed.
Held ==
  /\ Point \in {"ready", "check", "create", "open"} => engine /\ state = "starting"
  /\ Point \in {"current", "save", "again", "idle", "error", "finish"} => ~engine
  /\ engine /\ pipeline = NoPipeline =>
       state = "starting" \/ Point \in {"source", "joinSource", "pipeline", "engine"}

\* Idle and error are shown only while nothing runs.
Quiet == state \in {"idle", "error"} => NothingRuns

\* Once the program closes, one command is left, and nothing follows it.
Closes ==
  /\ closing <=> gui \in {"drain", "test", "cancelNow", "put", "closed", "broken"}
  /\ gui \in {"test", "cancelNow", "put", "broken"} => commands = <<>>
  /\ gui = "closed" => \/ commands = <<>>
                       \/ Len(commands) = 1 /\ commands[1].kind = "shutdown"
  /\ \A i \in DOMAIN commands : commands[i].kind = "shutdown" => gui = "closed"
  /\ cmd.kind = "shutdown" => gui = "closed" /\ commands = <<>>
  /\ completed => cmd.kind = "shutdown" /\ todo = <<>> /\ NothingRuns

\* The slots of the comments under way; a comment dropped while the program
\* closes keeps its slot.
Comments(queue) == {i \in DOMAIN queue : queue[i].kind = "comment"}
Owed == (IF reader.pc = "post" THEN 1 ELSE 0) + Cardinality(Comments(commands))
        + (IF Has("release") THEN 1 ELSE 0)
Slots ==
  /\ Owed <= slots
  /\ ~closing => slots = Owed

\* A comment that passed the test of its token is submitted to the pipeline
\* of its own session, unless a stop cancelled that pipeline.
Submits ==
  /\ SpokenBySameSession
  /\ Point = "submit" /\ pipeline.accepting =>
       muted <= cmd.token /\ (gui = "stop" => click <= cmd.token)

SInv ==
  /\ TypeOK /\ Script /\ Tokens /\ Pipelines /\ Sources /\ Held /\ Quiet /\ Closes
  /\ Slots /\ Submits

-----------------------------------------------------------------------------
(***************************************************************************)
(* Scripts.                                                                *)
(***************************************************************************)

\* Two scripts make one when the first leads to the second.
LEMMA Joined ==
  ASSUME NEW s \in Seq(Step), NEW t \in Seq(Step), NEW end, t # <<>>,
         Linked(s, Head(t)), Linked(t, end)
  PROVE  /\ s \o t \in Seq(Step) /\ s \o t # <<>> /\ Linked(s \o t, end)
         /\ Head(s \o t) = IF s = <<>> THEN Head(t) ELSE Head(s)
         /\ StepsOf(s \o t) = StepsOf(s) \cup StepsOf(t)
<1> DEFINE m == Len(s)
           n == Len(t)
           u == s \o t
<1>1. /\ m \in Nat /\ n \in Nat \ {0} /\ u \in Seq(Step) /\ Len(u) = m + n
      /\ \A i \in 1..m + n : u[i] = IF i <= m THEN s[i] ELSE t[i - m]
      /\ Head(t) = t[1]
  BY LenProperties, EmptySeq, ConcatProperties, HeadTailProperties
<1>2. u # <<>> /\ (s = <<>> => m = 0) /\ (s # <<>> => m # 0 /\ Head(s) = s[1])
  BY <1>1, EmptySeq, HeadTailProperties
<1>3. Head(u) = u[1]
  BY <1>1, <1>2, HeadTailProperties
<1> HIDE DEF m, n, u
<1>4. Head(u) = IF s = <<>> THEN Head(t) ELSE Head(s)
  BY <1>1, <1>2, <1>3
<1>5. ASSUME NEW i \in 1..m + n
      PROVE  Leads(u[i], IF i < m + n THEN u[i + 1] ELSE end)
  <2>1. CASE i < m
    <3>1. /\ i \in 1..m /\ i + 1 \in 1..m + n /\ u[i] = s[i] /\ u[i + 1] = s[i + 1]
          /\ i < m + n
      BY <1>1, <2>1
    <3> QED
      BY <2>1, <3>1 DEF Linked, m
  <2>2. CASE i = m
    <3>1. /\ i \in 1..m /\ i + 1 \in 1..m + n /\ u[i] = s[i] /\ u[i + 1] = t[1]
          /\ i < m + n /\ ~(i < m)
      BY <1>1, <2>2
    <3> QED
      BY <1>1, <3>1 DEF Linked, m
  <2>3. CASE i > m /\ i < m + n
    <3>1. /\ i - m \in 1..n /\ i + 1 \in 1..m + n /\ u[i] = t[i - m]
          /\ u[i + 1] = t[(i - m) + 1] /\ i - m < n
      BY <1>1, <2>3
    <3> QED
      BY <2>3, <3>1 DEF Linked, n
  <2>4. CASE i = m + n
    <3>1. n \in 1..n /\ u[i] = t[n] /\ ~(i < m + n) /\ ~(n < n)
      BY <1>1, <2>4
    <3> QED
      BY <3>1 DEF Linked, n
  <2> QED
    BY <1>1, <2>1, <2>2, <2>3, <2>4
<1>6. StepsOf(u) = StepsOf(s) \cup StepsOf(t)
  <2>1. \A i \in 1..m : i \in 1..m + n /\ u[i] = s[i]
    BY <1>1
  <2>2. ASSUME NEW i \in 1..n PROVE t[i] \in StepsOf(u)
    <3> DEFINE k == i + m
    <3>1. k \in 1..m + n /\ u[k] = t[i]
      BY <1>1
    <3> HIDE DEF k
    <3> QED
      BY <1>1, <3>1 DEF StepsOf
  <2>3. ASSUME NEW i \in 1..m + n PROVE u[i] \in StepsOf(s) \cup StepsOf(t)
    <3> DEFINE k == i - m
    <3>1. (i \in 1..m /\ u[i] = s[i]) \/ (k \in 1..n /\ u[i] = t[k])
      BY <1>1
    <3> HIDE DEF k
    <3> QED
      BY <3>1 DEF StepsOf, m, n
  <2>4. StepsOf(s) \subseteq StepsOf(u)
    BY <1>1, <2>1 DEF StepsOf, m
  <2>5. StepsOf(t) \subseteq StepsOf(u)
    BY <2>2 DEF StepsOf, n
  <2>6. StepsOf(u) \subseteq StepsOf(s) \cup StepsOf(t)
    BY <1>1, <2>3 DEF StepsOf
  <2> QED
    BY <2>4, <2>5, <2>6
<1> QED
  BY <1>1, <1>2, <1>4, <1>5, <1>6 DEF u, Linked

\* The rest of a script.
LEMMA Rest ==
  ASSUME NEW s \in Seq(Step), s # <<>>, NEW end, Linked(s, end)
  PROVE  /\ Tail(s) \in Seq(Step) /\ Linked(Tail(s), end) /\ Head(s) \in Step
         /\ Leads(Head(s), IF Tail(s) = <<>> THEN end ELSE Head(Tail(s)))
         /\ StepsOf(s) = {Head(s)} \cup StepsOf(Tail(s))
         /\ Len(Tail(s)) = Len(s) - 1 /\ Len(s) \in Nat \ {0}
         /\ \A i \in 1..Len(s) - 1 : Tail(s)[i] = s[i + 1]
<1> DEFINE n == Len(s)
           r == Tail(s)
<1>1. /\ n \in Nat \ {0} /\ r \in Seq(Step) /\ Len(r) = n - 1 /\ Head(s) = s[1]
      /\ \A i \in 1..n - 1 : r[i] = s[i + 1]
  BY LenProperties, EmptySeq, HeadTailProperties
<1>2. (r = <<>> => n = 1) /\ (r # <<>> => n > 1 /\ Head(r) = r[1])
  <2>1. r = <<>> <=> Len(r) = 0
    BY <1>1, EmptySeq
  <2>2. r # <<>> => Head(r) = r[1]
    BY <1>1, HeadTailProperties
  <2> QED
    BY <1>1, <2>1, <2>2
<1>3. s[1] \in Step
  BY <1>1, ElementOfSeq
<1> HIDE DEF n, r
<1>4. \A i \in 1..n : Leads(s[i], IF i < n THEN s[i + 1] ELSE end)
  BY DEF Linked, n
<1>5. Leads(s[1], IF r = <<>> THEN end ELSE Head(r))
  <2>1. 1 \in 1..n /\ (n > 1 => 1 \in 1..n - 1 /\ r[1] = s[2])
    BY <1>1
  <2> QED
    BY <1>1, <1>2, <1>4, <2>1
<1>6. Linked(r, end)
  <2> SUFFICES ASSUME NEW i \in 1..n - 1
               PROVE  Leads(r[i], IF i < n - 1 THEN r[i + 1] ELSE end)
    BY <1>1 DEF Linked
  <2>1. i + 1 \in 1..n /\ r[i] = s[i + 1] /\ (i < n - 1 => r[i + 1] = s[(i + 1) + 1])
        /\ (i + 1 < n <=> i < n - 1)
    BY <1>1
  <2>2. Leads(s[i + 1], IF i + 1 < n THEN s[(i + 1) + 1] ELSE end)
    BY <1>4, <2>1
  <2> QED
    BY <2>1, <2>2
<1>7. StepsOf(s) = {Head(s)} \cup StepsOf(r)
  <2>1. 1 \in 1..n
    BY <1>1
  <2>2. \A i \in 1..n - 1 : i + 1 \in 1..n /\ r[i] = s[i + 1]
    BY <1>1
  <2>3. ASSUME NEW i \in 1..n PROVE s[i] \in {Head(s)} \cup StepsOf(r)
    <3> DEFINE k == i - 1
    <3>1. i = 1 \/ (k \in 1..n - 1 /\ s[i] = r[k])
      BY <1>1
    <3> HIDE DEF k
    <3> QED
      BY <1>1, <3>1 DEF StepsOf
  <2>4. StepsOf(s) \subseteq {Head(s)} \cup StepsOf(r)
    BY <2>3 DEF StepsOf, n
  <2>5. {Head(s)} \cup StepsOf(r) \subseteq StepsOf(s)
    BY <1>1, <2>1, <2>2 DEF StepsOf, n
  <2> QED
    BY <2>4, <2>5
<1> QED
  BY <1>1, <1>3, <1>5, <1>6, <1>7 DEF n, r

\* A script that begins with first, leads to end and has these steps.
Chain(script, first, steps, end) ==
  /\ script \in Seq(Step) /\ script # <<>> /\ Linked(script, end)
  /\ Head(script) = first /\ StepsOf(script) = steps

\* Two paths, the second from where the first ends, make a path.
LEMMA ChainJoin ==
  ASSUME NEW s, NEW t, NEW a, NEW b, NEW A, NEW B, NEW end,
         Chain(s, a, A, b), Chain(t, b, B, end)
  PROVE  Chain(s \o t, a, A \cup B, end)
BY Joined DEF Chain

DisposeSteps == {"source", "joinSource", "pipeline", "engine"}
PrepareSteps == {"prepare", "ready", "check", "create"}

\* The two scripts the others are made of, and the short ones.
LEMMA DisposeScript ==
  ASSUME NEW end, Leads("engine", end)
  PROVE  Chain(Dispose, "source", DisposeSteps, end)
<1>1. Dispose \in Seq(Step) /\ Dispose # <<>> /\ Head(Dispose) = "source" /\ Len(Dispose) = 4
  BY DEF Dispose, Step
<1>2. /\ Dispose[1] = "source" /\ Dispose[2] = "joinSource" /\ Dispose[3] = "pipeline"
      /\ Dispose[4] = "engine"
  BY DEF Dispose
<1>3. StepsOf(Dispose) = DisposeSteps
  BY <1>1, <1>2 DEF StepsOf, DisposeSteps
<1>4. Linked(Dispose, end)
  BY <1>1, <1>2 DEF Linked, Leads
<1> QED
  BY <1>1, <1>3, <1>4 DEF Chain

\* The script that prepares is a path that ends where the creation of a
\* pipeline may follow.
LEMMA PrepareScript ==
  ASSUME NEW end, Leads("create", end)
  PROVE  Chain(Prepare, "prepare", PrepareSteps, end)
<1>1. Prepare \in Seq(Step) /\ Prepare # <<>> /\ Head(Prepare) = "prepare" /\ Len(Prepare) = 4
  BY DEF Prepare, Step
<1>2. /\ Prepare[1] = "prepare" /\ Prepare[2] = "ready" /\ Prepare[3] = "check"
      /\ Prepare[4] = "create"
  BY DEF Prepare
<1>3. StepsOf(Prepare) = PrepareSteps
  BY <1>1, <1>2 DEF StepsOf, PrepareSteps
<1>4. Linked(Prepare, end)
  BY <1>1, <1>2 DEF Linked, Leads
<1> QED
  BY <1>1, <1>3, <1>4 DEF Chain

\* One step is a path.
LEMMA OneStep ==
  ASSUME NEW a \in Step, NEW end, Leads(a, end)
  PROVE  Chain(<<a>>, a, {a}, end)
BY DEF Chain, StepsOf, Linked

\* Two steps, of which the second may follow the first, are a path.
LEMMA TwoSteps ==
  ASSUME NEW a \in Step, NEW b \in Step, NEW end, Leads(a, b), Leads(b, end)
  PROVE  Chain(<<a, b>>, a, {a, b}, end)
BY DEF Chain, StepsOf, Linked

\* So are three.
LEMMA ThreeSteps ==
  ASSUME NEW a \in Step, NEW b \in Step, NEW c \in Step, NEW end,
         Leads(a, b), Leads(b, c), Leads(c, end)
  PROVE  Chain(<<a, b, c>>, a, {a, b, c}, end)
BY DEF Chain, StepsOf, Linked

\* The end of what runs, and what is done then.
LEMMA DisposeThen ==
  ASSUME NEW a \in {"idle", "error", "finish"}
  PROVE  Chain(Dispose \o <<a>>, "source", DisposeSteps \cup {a}, "rest")
<1>1. a \in Step /\ Leads(a, "rest") /\ Leads("engine", a)
  BY DEF Step, State, Leads
<1>2. Chain(Dispose, "source", DisposeSteps, a) /\ Chain(<<a>>, a, {a}, "rest")
  BY <1>1, DisposeScript, OneStep
<1> QED
  BY <1>2, ChainJoin

\* The start of a session.
LEMMA StartScript ==
  Chain(StartSteps, "source", DisposeSteps \cup {"current", "save"} \cup PrepareSteps \cup {"open"},
        "rest")
<1> DEFINE b == <<"current", "save">>
           c == <<"open">>
<1>1. /\ Leads("engine", "current") /\ Leads("current", "save") /\ Leads("save", "prepare")
      /\ Leads("create", "open") /\ Leads("open", "rest")
      /\ "current" \in Step /\ "save" \in Step /\ "open" \in Step
  BY DEF Leads, Step
<1>2. /\ Chain(Dispose, "source", DisposeSteps, "current")
      /\ Chain(b, "current", {"current", "save"}, "prepare")
      /\ Chain(Prepare, "prepare", PrepareSteps, "open")
      /\ Chain(c, "open", {"open"}, "rest")
  BY <1>1, DisposeScript, TwoSteps, PrepareScript, OneStep
<1>3. StartSteps = ((Dispose \o b) \o Prepare) \o c
  BY DEF StartSteps
<1> HIDE DEF b, c
<1>4. Chain(Dispose \o b, "source", DisposeSteps \cup {"current", "save"}, "prepare")
  BY <1>2, ChainJoin
<1>5. Chain((Dispose \o b) \o Prepare, "source",
            DisposeSteps \cup {"current", "save"} \cup PrepareSteps, "open")
  BY <1>2, <1>4, ChainJoin
<1> QED
  BY <1>2, <1>3, <1>5, ChainJoin

\* A preparation that ends with the announcement of a running session.
LEMMA RunScript ==
  ASSUME NEW end, Leads("running", end)
  PROVE  /\ Chain(Prepare \o <<"running">>, "prepare", PrepareSteps \cup {"running"}, end)
         /\ Chain(<<"renew">> \o Prepare \o <<"running">>, "renew",
                  {"renew"} \cup PrepareSteps \cup {"running"}, end)
<1> DEFINE a == <<"renew">>
           c == <<"running">>
<1>1. /\ Leads("renew", "prepare") /\ Leads("create", "running")
      /\ "renew" \in Step /\ "running" \in Step
  BY DEF Leads, Step, State
<1>2. /\ Chain(a, "renew", {"renew"}, "prepare")
      /\ Chain(Prepare, "prepare", PrepareSteps, "running")
      /\ Chain(c, "running", {"running"}, end)
  BY <1>1, OneStep, PrepareScript
<1> HIDE DEF a, c
<1>3. Chain(a \o Prepare, "renew", {"renew"} \cup PrepareSteps, "running")
  BY <1>2, ChainJoin
<1>4. /\ Chain((a \o Prepare) \o c, "renew", {"renew"} \cup PrepareSteps \cup {"running"}, end)
      /\ Chain(Prepare \o c, "prepare", PrepareSteps \cup {"running"}, end)
  BY <1>2, <1>3, ChainJoin
<1> QED
  BY <1>4 DEF a, c

\* A stop.
LEMMA StopScript ==
  Chain(<<"stopping">> \o Dispose \o <<"idle">>, "stopping",
        {"stopping"} \cup DisposeSteps \cup {"idle"}, "rest")
<1> DEFINE a == <<"stopping">>
           c == <<"idle">>
<1>1. /\ Leads("stopping", "source") /\ Leads("engine", "idle") /\ Leads("idle", "rest")
      /\ "stopping" \in Step /\ "idle" \in Step
  BY DEF Leads, Step, State
<1>2. /\ Chain(a, "stopping", {"stopping"}, "source")
      /\ Chain(Dispose, "source", DisposeSteps, "idle")
      /\ Chain(c, "idle", {"idle"}, "rest")
  BY <1>1, OneStep, DisposeScript
<1> HIDE DEF a, c
<1>3. Chain(a \o Dispose, "stopping", {"stopping"} \cup DisposeSteps, "idle")
  BY <1>2, ChainJoin
<1>4. Chain((a \o Dispose) \o c, "stopping", {"stopping"} \cup DisposeSteps \cup {"idle"}, "rest")
  BY <1>2, <1>3, ChainJoin
<1> QED
  BY <1>4 DEF a, c

\* A spoken test: what does not run is prepared first.
LEMMA TestScript ==
  /\ Chain(<<>> \o <<"receiveTest", "submit">>, "receiveTest", {"receiveTest", "submit"}, "rest")
  /\ Chain((<<"renew">> \o Prepare \o <<"running">>) \o <<"receiveTest", "submit">>, "renew",
           {"renew"} \cup PrepareSteps \cup {"running"} \cup {"receiveTest", "submit"}, "rest")
<1> DEFINE a == <<"renew">> \o Prepare \o <<"running">>
           b == <<"receiveTest", "submit">>
<1>1. /\ Leads("running", "receiveTest") /\ Leads("receiveTest", "submit") /\ Leads("submit", "rest")
      /\ "receiveTest" \in Step /\ "submit" \in Step
  BY DEF Leads, Step
<1>2. Chain(b, "receiveTest", {"receiveTest", "submit"}, "rest")
  BY <1>1, TwoSteps
<1>3. Chain(a, "renew", {"renew"} \cup PrepareSteps \cup {"running"}, "receiveTest")
  BY <1>1, RunScript
<1>4. <<>> \o b = b
  BY <1>2, ConcatEmptySeq DEF Chain
<1> HIDE DEF a, b
<1>5. Chain(a \o b, "renew", {"renew"} \cup PrepareSteps \cup {"running"} \cup {"receiveTest", "submit"},
            "rest")
  BY <1>2, <1>3, ChainJoin
<1>6. Chain(<<>> \o b, "receiveTest", {"receiveTest", "submit"}, "rest")
  BY <1>2, <1>4
<1> QED
  BY <1>5, <1>6 DEF a, b

\* What follows a script does not change its third step.
LEMMA ThirdStays ==
  ASSUME NEW s \in Seq(Step), NEW t \in Seq(Step), 3 <= Len(s)
  PROVE  3 <= Len(s \o t) /\ (s \o t)[3] = s[3]
<1>1. Len(s) \in Nat /\ Len(t) \in Nat /\ 3 \in 1..Len(s) + Len(t)
  BY LenProperties
<1>2. /\ Len(s \o t) = Len(s) + Len(t)
      /\ \A i \in 1..Len(s) + Len(t) : (s \o t)[i] = IF i <= Len(s) THEN s[i] ELSE t[i - Len(s)]
  BY ConcatProperties
<1> QED
  BY <1>1, <1>2

\* The rebuild of a broken pipeline.
AgainSteps == <<"pipeline", "engine", "again">> \o Prepare \o <<"running">>

\* The script of a second attempt is a path to the end of a command.
LEMMA AgainScript ==
  /\ Chain(AgainSteps, "pipeline",
           {"pipeline", "engine", "again"} \cup PrepareSteps \cup {"running"}, "rest")
  /\ 3 <= Len(AgainSteps) /\ AgainSteps[3] = "again"
<1> DEFINE a == <<"pipeline", "engine", "again">>
           c == <<"running">>
<1>1. /\ Leads("pipeline", "engine") /\ Leads("engine", "again") /\ Leads("again", "prepare")
      /\ Leads("create", "running") /\ Leads("running", "rest")
      /\ "pipeline" \in Step /\ "engine" \in Step /\ "again" \in Step /\ "running" \in Step
  BY DEF Leads, Step, State
<1>2. /\ Chain(a, "pipeline", {"pipeline", "engine", "again"}, "prepare")
      /\ Chain(Prepare, "prepare", PrepareSteps, "running")
      /\ Chain(c, "running", {"running"}, "rest")
  BY <1>1, ThreeSteps, PrepareScript, OneStep
<1>3. Len(a) = 3 /\ a[3] = "again" /\ AgainSteps = (a \o Prepare) \o c
  BY DEF AgainSteps
<1> HIDE DEF a, c
<1> DEFINE b == a \o Prepare
<1>4. Chain(b, "pipeline", {"pipeline", "engine", "again"} \cup PrepareSteps, "running")
  BY <1>2, ChainJoin
<1>5. a \in Seq(Step) /\ Prepare \in Seq(Step) /\ b \in Seq(Step) /\ c \in Seq(Step)
  BY <1>2, <1>4 DEF Chain
<1>6. 3 <= Len(b) /\ b[3] = "again"
  <2>1. 3 <= Len(a)
    BY <1>3
  <2>2. 3 <= Len(a \o Prepare) /\ (a \o Prepare)[3] = a[3]
    BY <1>5, <2>1, ThirdStays
  <2> QED
    BY <1>3, <2>2
<1> HIDE DEF b
<1>7. 3 <= Len(b \o c) /\ (b \o c)[3] = "again"
  BY <1>5, <1>6, ThirdStays
<1>8. Chain(b \o c, "pipeline", {"pipeline", "engine", "again"} \cup PrepareSteps \cup {"running"}, "rest")
  BY <1>2, <1>4, ChainJoin
<1> QED
  BY <1>3, <1>7, <1>8 DEF b

\* What new settings do to what runs.
LEMMA ApplyScripts ==
  /\ Chain(Dispose \o <<>>, "source", DisposeSteps, "rest")
  /\ Chain(Dispose \o (<<"renew">> \o StartSteps), "source",
           DisposeSteps \cup ({"renew"} \cup (DisposeSteps \cup {"current", "save"}
                                              \cup PrepareSteps \cup {"open"})), "rest")
  /\ Chain(Dispose \o (<<"renew">> \o (Prepare \o <<"running">>)), "source",
           DisposeSteps \cup ({"renew"} \cup (PrepareSteps \cup {"running"})), "rest")
<1> DEFINE a == <<"renew">>
           b == Prepare \o <<"running">>
           S == DisposeSteps \cup {"current", "save"} \cup PrepareSteps \cup {"open"}
           T == PrepareSteps \cup {"running"}
<1>1. /\ Leads("engine", "rest") /\ Leads("engine", "renew") /\ Leads("renew", "source")
      /\ Leads("renew", "prepare") /\ Leads("running", "rest") /\ "renew" \in Step
  BY DEF Leads, Step
<1>2. /\ Chain(Dispose, "source", DisposeSteps, "rest")
      /\ Chain(Dispose, "source", DisposeSteps, "renew")
      /\ Chain(a, "renew", {"renew"}, "source") /\ Chain(a, "renew", {"renew"}, "prepare")
      /\ Chain(StartSteps, "source", S, "rest") /\ Chain(b, "prepare", T, "rest")
  BY <1>1, DisposeScript, OneStep, StartScript, RunScript
<1>3. Dispose \o <<>> = Dispose
  BY <1>2, ConcatEmptySeq DEF Chain
<1> HIDE DEF a, b, S, T
<1>4. /\ Chain(a \o StartSteps, "renew", {"renew"} \cup S, "rest")
      /\ Chain(a \o b, "renew", {"renew"} \cup T, "rest")
  BY <1>2, ChainJoin
<1>5. /\ Chain(Dispose \o (a \o StartSteps), "source", DisposeSteps \cup ({"renew"} \cup S), "rest")
      /\ Chain(Dispose \o (a \o b), "source", DisposeSteps \cup ({"renew"} \cup T), "rest")
  BY <1>2, <1>4, ChainJoin
<1>6. Chain(Dispose \o <<>>, "source", DisposeSteps, "rest")
  BY <1>2, <1>3
<1> QED
  BY <1>5, <1>6 DEF a, b, S, T

\* The short scripts.
LEMMA ShortScripts ==
  /\ Chain(<<"receive", "submit", "release">>, "receive", {"receive", "submit", "release"}, "rest")
  /\ \A a \in {"up", "down", "cancel"} : Chain(<<a>>, a, {a}, "rest")
<1>1. /\ Leads("receive", "submit") /\ Leads("submit", "release") /\ Leads("release", "rest")
      /\ \A a \in {"cancel", "up", "down"} : Leads(a, "rest") /\ a \in Step
      /\ "receive" \in Step /\ "submit" \in Step /\ "release" \in Step
  BY DEF Leads, Step
<1>2. Chain(<<"receive", "submit", "release">>, "receive", {"receive", "submit", "release"}, "rest")
  BY <1>1, ThreeSteps
<1> QED
  BY <1>1, <1>2, OneStep

-----------------------------------------------------------------------------
(***************************************************************************)
(* Steps of the control flow.                                              *)
(***************************************************************************)

\* Control goes on to the next step of the script.
LEMMA Going ==
  ASSUME TypeOK, Script, todo # <<>>, todo' = Tail(todo)
  PROVE  /\ todo' \in Seq(Step) /\ Linked(todo', "rest") /\ Leads(Point, Point')
         /\ StepsOf(todo') \subseteq StepsOf(todo) /\ Point \in StepsOf(todo)
         /\ 2 <= Len(todo) => Point' = todo[2]
         /\ 3 <= Len(todo) => 2 <= Len(todo') /\ todo'[2] = todo[3]
<1>1. todo \in Seq(Step) /\ Linked(todo, "rest") /\ Point = Head(todo)
  BY DEF TypeOK, Script, Point
<1>2. /\ todo' \in Seq(Step) /\ Linked(todo', "rest")
      /\ Leads(Point, IF todo' = <<>> THEN "rest" ELSE Head(todo'))
      /\ StepsOf(todo) = {Point} \cup StepsOf(todo')
      /\ Len(todo') = Len(todo) - 1 /\ Len(todo) \in Nat \ {0}
      /\ \A i \in 1..Len(todo) - 1 : todo'[i] = todo[i + 1]
  BY <1>1, Rest
<1>3. Point' = IF todo' = <<>> THEN "rest" ELSE Head(todo')
  BY DEF Point
<1>4. ASSUME 2 <= Len(todo) PROVE Point' = todo[2]
  <2>1. Len(todo') # 0 /\ todo'[1] = todo[2]
    BY <1>2, <1>4
  <2>2. todo' # <<>>
    BY <1>2, <2>1, EmptySeq
  <2>3. Head(todo') = todo'[1]
    BY <1>2, <2>2, HeadTailProperties
  <2> QED
    BY <1>3, <2>1, <2>2, <2>3
<1>5. 3 <= Len(todo) => 2 <= Len(todo') /\ todo'[2] = todo[3]
  BY <1>2
<1> QED
  BY <1>2, <1>3, <1>4, <1>5

\* No step has the name of the rest.
LEMMA AtEnd ==
  ASSUME todo' \in Seq(Step), Point' = "rest"
  PROVE  todo' = <<>> /\ StepsOf(todo') = {}
<1>1. todo' = <<>>
  <2>1. SUFFICES ASSUME todo' # <<>> PROVE FALSE
    OBVIOUS
  <2>2. Head(todo') = todo'[1] /\ Len(todo') \in Nat /\ Len(todo') # 0
    BY <2>1, HeadTailProperties, EmptySeq, LenProperties
  <2>3. todo'[1] \in Step
    BY <2>2, ElementOfSeq
  <2>4. Point' = todo'[1]
    BY <2>1, <2>2 DEF Point
  <2> QED
    BY <2>3, <2>4 DEF Step, State
<1> QED
  BY <1>1 DEF StepsOf

\* Control begins a script.
LEMMA Beginning ==
  ASSUME NEW first, NEW steps, Chain(todo', first, steps, "rest")
  PROVE  /\ todo' \in Seq(Step) /\ Linked(todo', "rest")
         /\ Point' = first /\ StepsOf(todo') = steps
BY DEF Chain, Point

\* Control ends a command.
LEMMA Resuming ==
  ASSUME todo' = <<>>
  PROVE  /\ todo' \in Seq(Step) /\ Linked(todo', "rest")
         /\ Point' = "rest" /\ StepsOf(todo') = {}
BY DEF Linked, Point, StepsOf

Outside == UserStep \/ GuiStep \/ Reader \/ Surprise

\* The other threads leave to control what is control's; a cancel only stops
\* the pipeline from accepting.
LEMMA OutsideFrame ==
  ASSUME Outside
  PROVE  /\ UNCHANGED <<todo, cmd, state, connected, session, source, engine, spoken, completed>>
         /\ pipeline' = pipeline \/ pipeline' = [pipeline EXCEPT !.accepting = FALSE]
         /\ reader' = reader \/ (reader.pc # "gone" /\ \E p : reader' = [reader EXCEPT !.pc = p])
         /\ intent' = intent \/ intent' = intent + 1
         /\ closing' = closing \/ closing' = TRUE
<1> USE DEF runtime, status, control, lock, desk, outside, rest
<1>1. CASE UserStep
  BY <1>1 DEF UserStep, ClickStart, ClickStop, ClickTest, ClickApply, ClickClose, NextIntent
<1>2. CASE GuiStep
  BY <1>2 DEF GuiStep, PostStart, StopCancel, PostStop, DrainCommands, ShutdownTest,
    ShutdownCancel, ShutdownPut, Deliver, CancelPipeline
<1>3. CASE Reader
  BY <1>3 DEF Reader, ReaderPost, ReaderStop, ReaderEnd, ReaderOnly
<1>4. CASE Surprise
  BY <1>4 DEF Surprise, ReaderComment, ReaderConnection, ReaderFail, PipelineGivesUp,
    EngineChange, ReaderOnly, CancelPipeline
<1> QED
  BY <1>1, <1>2, <1>3, <1>4 DEF Outside

\* What the other threads cannot disturb.
LEMMA OutsideFlow ==
  ASSUME SInv, Outside
  PROVE  Script' /\ Pipelines' /\ Sources' /\ Held' /\ Quiet'
<1>1. /\ TypeOK /\ Script /\ Pipelines /\ Sources /\ Held /\ Quiet
      /\ intent \in Nat /\ session \in Nat /\ pipeline \in [token : Nat, accepting : BOOLEAN]
      /\ reader \in [token : Nat, pc : {"live", "post", "end", "gone"}]
  BY DEF SInv, TypeOK
<1>2. /\ UNCHANGED <<todo, cmd, state, session, source, engine, Point, StepsOf(todo)>>
      /\ pipeline' = pipeline \/ pipeline' = [pipeline EXCEPT !.accepting = FALSE]
      /\ intent' \in Nat /\ intent' >= intent
      /\ reader.pc = "gone" => reader'.pc = "gone"
  BY <1>1, OutsideFrame DEF Point, StepsOf
<1>3. /\ pipeline'.token = pipeline.token
      /\ pipeline' = NoPipeline <=> pipeline = NoPipeline
  BY <1>1, <1>2 DEF Pipelines, NoPipeline
<1>4. Script'
  BY <1>1, <1>2 DEF Script, Has
<1>5. Pipelines'
  BY <1>1, <1>2, <1>3 DEF Pipelines
<1>6. Sources'
  BY <1>1, <1>2, <1>3 DEF Sources, Has
<1>7. Held' /\ Quiet'
  BY <1>1, <1>2, <1>3 DEF Held, Quiet, NothingRuns
<1> QED
  BY <1>4, <1>5, <1>6, <1>7

-----------------------------------------------------------------------------
(***************************************************************************)
(* The steps of control.                                                   *)
(***************************************************************************)
Flow == Script /\ Tokens /\ Pipelines /\ Sources /\ Held /\ Quiet

\* What is known when control takes a step.
LEMMA FlowTypes ==
  ASSUME SInv
  PROVE  /\ Flow /\ TypeOK
         /\ todo \in Seq(Step) /\ intent \in Nat /\ session \in Nat /\ source \in Nat
         /\ engine \in BOOLEAN /\ click \in Nat /\ muted \in Nat
         /\ pipeline \in [token : Nat, accepting : BOOLEAN]
         /\ reader \in [token : Nat, pc : {"live", "post", "end", "gone"}]
         /\ cmd \in CommandType /\ cmd.token \in Nat /\ cmd.kind \in Kind
         /\ commands \in Seq(CommandType)
BY DEF SInv, Flow, TypeOK, CommandType

\* What is known of a command in the queue.
LEMMA Queued ==
  ASSUME TypeOK
  PROVE  /\ DOMAIN commands = 1..Len(commands) /\ Len(commands) \in Nat
         /\ \A i \in DOMAIN commands :
              /\ commands[i] \in CommandType /\ commands[i].token \in Nat
              /\ commands[i].kind \in Kind
<1>1. commands \in Seq(CommandType)
  BY DEF TypeOK
<1>2. DOMAIN commands = 1..Len(commands) /\ Len(commands) \in Nat
  BY <1>1, LenProperties
<1>3. \A i \in 1..Len(commands) : commands[i] \in CommandType
  BY <1>1, ElementOfSeq
<1>4. \A c \in CommandType : c.token \in Nat /\ c.kind \in Kind
  BY DEF CommandType
<1> QED
  BY <1>2, <1>3, <1>4

\* A script goes on to its next step.
LEMMA FlowGo ==
  ASSUME SInv, NEW x, At(x), todo' = Tail(todo)
  PROVE  /\ todo # <<>> /\ Point = x /\ Leads(x, Point')
         /\ Linked(todo', "rest") /\ todo' \in Seq(Step)
         /\ \A y : y \in StepsOf(todo') => Has(y)
         /\ 2 <= Len(todo) => Point' = todo[2]
         /\ 3 <= Len(todo) => 2 <= Len(todo') /\ todo'[2] = todo[3]
         /\ Has(x)
         /\ Point' = "rest" => todo' = <<>> /\ StepsOf(todo') = {}
<1>1. todo # <<>> /\ Point = x
  BY DEF At, Point
<1>2. TypeOK /\ Script
  BY FlowTypes DEF Flow
<1>3. todo' \in Seq(Step)
  BY <1>1, <1>2, Going
<1>4. ASSUME Point' = "rest" PROVE todo' = <<>> /\ StepsOf(todo') = {}
  BY <1>3, <1>4, AtEnd
<1> QED
  BY <1>1, <1>2, <1>4, Going DEF Has

\* What runs is ended part by part.
LEMMA DisposeFlow ==
  ASSUME SInv, CloseSource \/ JoinSource \/ DropPipeline
  PROVE  Flow'
<1> USE DEF runtime, status, lock, rest, Threads, desk, outside
<1>1. Flow /\ reader \in [token : Nat, pc : {"live", "post", "end", "gone"}]
      /\ intent \in Nat /\ session \in Nat /\ cmd.token \in Nat /\ source \in Nat
  BY FlowTypes
<1>2. CASE CloseSource
  <2>1. /\ Point = "source" /\ Point' = "joinSource" /\ Linked(todo', "rest")
        /\ \A y : y \in StepsOf(todo') => Has(y)
    BY <1>2, FlowGo DEF CloseSource, Go, Leads
  <2>2. /\ source' = 0 /\ UNCHANGED <<cmd, state, session, pipeline, engine, reader, lock, rest, click, gui>>
    BY <1>2 DEF CloseSource, Go
  <2> QED
    BY <1>1, <2>1, <2>2 DEF Flow, Script, Tokens, Pipelines, Sources, Held, Quiet, Has,
      NothingRuns, Rebuilding
<1>3. CASE JoinSource
  <2>1. /\ Point = "joinSource" /\ Point' = "pipeline" /\ Linked(todo', "rest")
        /\ \A y : y \in StepsOf(todo') => Has(y)
    BY <1>3, FlowGo DEF JoinSource, Go, Leads
  <2>2. /\ reader.pc = "gone"
        /\ UNCHANGED <<cmd, state, source, session, pipeline, engine, reader, lock, rest, click, gui>>
    BY <1>3 DEF JoinSource, Go, ReaderJoined
  <2> QED
    BY <1>1, <2>1, <2>2 DEF Flow, Script, Tokens, Pipelines, Sources, Held, Quiet, Has,
      NothingRuns, Rebuilding
<1>4. CASE DropPipeline
  <2>1. /\ Point = "pipeline" /\ Point' = "engine" /\ Linked(todo', "rest")
        /\ \A y : y \in StepsOf(todo') => Has(y)
        /\ 3 <= Len(todo) => 2 <= Len(todo') /\ todo'[2] = todo[3]
    BY <1>4, FlowGo DEF DropPipeline, Go, Leads
  <2>2. /\ pipeline' = NoPipeline
        /\ UNCHANGED <<cmd, state, source, session, engine, reader, lock, rest, click, gui>>
    BY <1>4 DEF DropPipeline, Go
  <2> QED
    BY <1>1, <2>1, <2>2 DEF Flow, Script, Tokens, Pipelines, Sources, Held, Quiet, Has,
      NothingRuns, Rebuilding
<1> QED
  BY <1>2, <1>3, <1>4

\* Closing the engine may raise; the recovery closes what is still there.
LEMMA CloseEngineFlow ==
  ASSUME SInv, CloseEngine
  PROVE  Flow'
<1> USE DEF runtime, status, lock, rest, Threads, desk, outside
<1>1. /\ Flow /\ reader \in [token : Nat, pc : {"live", "post", "end", "gone"}]
      /\ intent \in Nat /\ session \in Nat /\ cmd.token \in Nat /\ source \in Nat
      /\ engine \in BOOLEAN
  BY FlowTypes
<1>2. /\ At("engine") /\ Point = "engine"
      /\ UNCHANGED <<state, session, source, pipeline, reader, lock, rest, click, gui>>
  BY DEF CloseEngine, At, Point, Has, StepsOf
<1>3. ASSUME Go, engine' = FALSE PROVE Flow'
  <2>1. /\ Leads("engine", Point') /\ Linked(todo', "rest") /\ cmd' = cmd
        /\ \A y : y \in StepsOf(todo') => Has(y)
        /\ 2 <= Len(todo) => Point' = todo[2]
    BY <1>2, <1>3, FlowGo DEF Go
  <2> QED
    BY <1>1, <1>2, <1>3, <2>1 DEF Flow, Script, Tokens, Pipelines, Sources, Held, Quiet, Has,
      NothingRuns, Rebuilding, Leads
<1>4. ASSUME engine, Raise, engine' = (cmd.kind = "engine") PROVE Flow'
  <2>1. CASE cmd.kind \in {"shutdown", "recovery"}
    BY <1>3, <1>4, <2>1 DEF Raise
  <2>2. CASE cmd.kind = "apply"
    <3>1. todo' = <<>> /\ cmd' = cmd /\ engine' = FALSE
      BY <1>4, <2>2 DEF Raise
    <3>2. Point' = "rest" /\ Linked(todo', "rest") /\ StepsOf(todo') = {}
      BY <3>1, Resuming
    <3> QED
      BY <1>1, <1>2, <1>4, <2>2, <3>1, <3>2 DEF Flow, Script, Tokens, Pipelines, Sources, Held,
        Quiet, Has, NothingRuns, Rebuilding
  <2>3. CASE cmd.kind \notin {"shutdown", "recovery", "apply"}
    <3>1. todo' = Dispose \o <<"error">> /\ cmd' = Command("recovery", 0)
      BY <1>4, <2>3 DEF Raise
    <3>2. /\ Point' = "source" /\ Linked(todo', "rest") /\ StepsOf(todo') = DisposeSteps \cup {"error"}
      BY <3>1, DisposeThen, Beginning
    <3>3. cmd'.token = 0
      BY <3>1 DEF Command
    <3> QED
      BY <1>1, <1>2, <1>4, <3>2, <3>3 DEF Flow, Script, Tokens, Pipelines, Sources, Held,
        Quiet, Has, NothingRuns, Rebuilding, DisposeSteps
  <2> QED
    BY <2>1, <2>2, <2>3
<1> QED
  BY <1>3, <1>4 DEF CloseEngine

\* A start whose token is no longer current ends at once.
LEMMA CurrentFlow ==
  ASSUME SInv, IsCurrent
  PROVE  Flow'
<1> USE DEF runtime, status, lock, rest, Threads, desk, outside
<1>1. /\ Flow /\ reader \in [token : Nat, pc : {"live", "post", "end", "gone"}]
      /\ intent \in Nat /\ session \in Nat /\ cmd.token \in Nat /\ source \in Nat
  BY FlowTypes
<1>2. /\ At("current") /\ Point = "current" /\ cmd' = cmd
      /\ UNCHANGED <<state, session, source, engine, pipeline, reader, lock, rest, click, gui>>
  BY DEF IsCurrent, At, Point, GoIf
<1>3. CASE Valid(cmd.token)
  <2>1. /\ Point' = "save" /\ Linked(todo', "rest") /\ Has("current")
        /\ \A y : y \in StepsOf(todo') => Has(y)
    BY <1>2, <1>3, FlowGo DEF IsCurrent, GoIf, Leads
  <2>2. cmd.token = intent /\ intent > 0
    BY <1>1, <1>3, <2>1 DEF Valid, Current, Flow, Script
  <2> QED
    BY <1>1, <1>2, <2>1, <2>2 DEF Flow, Script, Tokens, Pipelines, Sources, Held, Quiet, Has,
      NothingRuns, Rebuilding
<1>4. CASE ~Valid(cmd.token)
  <2>1. Point' = "rest" /\ Linked(todo', "rest") /\ StepsOf(todo') = {}
    BY <1>4, Resuming DEF IsCurrent, GoIf
  <2> QED
    BY <1>1, <1>2, <2>1 DEF Flow, Script, Tokens, Pipelines, Sources, Held, Quiet, Has,
      NothingRuns, Rebuilding
<1> QED
  BY <1>3, <1>4

\* Saving the settings, or making the engine ready, may raise.
LEMMA MayFailFlow ==
  ASSUME SInv, MayFail
  PROVE  Flow'
<1> USE DEF runtime, status, lock, rest, Threads, desk, outside
<1>1. /\ Flow /\ reader \in [token : Nat, pc : {"live", "post", "end", "gone"}]
      /\ intent \in Nat /\ session \in Nat /\ cmd.token \in Nat /\ source \in Nat
      /\ engine \in BOOLEAN
  BY FlowTypes
<1>2. /\ At("save") \/ At("ready")
      /\ Point \in {"save", "ready"}
      /\ UNCHANGED <<state, session, source, engine, pipeline, reader, lock, rest, click, gui>>
  BY DEF MayFail, At, Point
<1>3. ASSUME Go PROVE Flow'
  <2>1. /\ (Point = "save" /\ Point' = "prepare") \/ (Point = "ready" /\ Point' = "check")
        /\ Linked(todo', "rest") /\ cmd' = cmd
        /\ \A y : y \in StepsOf(todo') => Has(y)
    BY <1>2, <1>3, FlowGo DEF Go, Leads
  <2> QED
    BY <1>1, <1>2, <2>1 DEF Flow, Script, Tokens, Pipelines, Sources, Held, Quiet, Has,
      NothingRuns, Rebuilding
<1>4. ASSUME Raise PROVE Flow'
  <2>1. CASE cmd.kind \in {"shutdown", "recovery"}
    BY <1>3, <1>4, <2>1 DEF Raise
  <2>2. CASE cmd.kind = "apply"
    <3>1. todo' = <<>> /\ cmd' = cmd
      BY <1>4, <2>2 DEF Raise
    <3>2. Point' = "rest" /\ Linked(todo', "rest") /\ StepsOf(todo') = {}
      BY <3>1, Resuming
    <3> QED
      BY <1>1, <1>2, <2>2, <3>1, <3>2 DEF Flow, Script, Tokens, Pipelines, Sources, Held,
        Quiet, Has, NothingRuns, Rebuilding
  <2>3. CASE cmd.kind \notin {"shutdown", "recovery", "apply"}
    <3>1. todo' = Dispose \o <<"error">> /\ cmd' = Command("recovery", 0)
      BY <1>4, <2>3 DEF Raise
    <3>2. /\ Point' = "source" /\ Linked(todo', "rest") /\ StepsOf(todo') = DisposeSteps \cup {"error"}
      BY <3>1, DisposeThen, Beginning
    <3>3. cmd'.token = 0
      BY <3>1 DEF Command
    <3> QED
      BY <1>1, <1>2, <3>2, <3>3 DEF Flow, Script, Tokens, Pipelines, Sources, Held,
        Quiet, Has, NothingRuns, Rebuilding, DisposeSteps
  <2> QED
    BY <2>1, <2>2, <2>3
<1> QED
  BY <1>3, <1>4 DEF MayFail

\* A session is prepared under the token of its command.
LEMMA PrepareFlow ==
  ASSUME SInv, BeginPrepare \/ CheckPrepared \/ CreatePipeline \/ OpenSource
  PROVE  Flow'
<1> USE DEF runtime, status, lock, rest, Threads, desk, outside
<1>1. /\ Flow /\ reader \in [token : Nat, pc : {"live", "post", "end", "gone"}]
      /\ intent \in Nat /\ session \in Nat /\ cmd.token \in Nat /\ source \in Nat
      /\ engine \in BOOLEAN /\ pipeline \in [token : Nat, accepting : BOOLEAN]
      /\ commands \in Seq(CommandType)
  BY FlowTypes
<1>2. CASE BeginPrepare
  <2>1. /\ Point = "prepare" /\ Point' = "ready" /\ Linked(todo', "rest")
        /\ \A y : y \in StepsOf(todo') => Has(y)
    BY <1>2, FlowGo DEF BeginPrepare, Go, Leads
  <2>2. /\ session' = cmd.token /\ engine' = TRUE /\ state' = "starting"
        /\ UNCHANGED <<cmd, source, pipeline, reader, lock, rest, click, gui>>
    BY <1>2 DEF BeginPrepare, Go, SetState
  <2>3. cmd.token >= session /\ cmd.token > 0 /\ cmd.token <= intent
    BY <1>1, <2>1 DEF Flow, Tokens
  <2>4. Script'
    BY <1>1, <2>1, <2>2, <2>3 DEF Flow, Script, Has
  <2>5. \A i \in DOMAIN commands : commands[i].token \in Nat
    BY FlowTypes, Queued
  <2>6. Tokens'
    BY <1>1, <2>1, <2>2, <2>3, <2>5 DEF Flow, Tokens
  <2> QED
    BY <1>1, <2>1, <2>2, <2>3, <2>4, <2>6 DEF Flow, Pipelines, Sources, Held, Quiet, Has,
      NothingRuns, Rebuilding
<1>3. CASE CheckPrepared /\ Valid(cmd.token)
  <2>1. /\ Point = "check" /\ Point' = "create" /\ Linked(todo', "rest")
        /\ \A y : y \in StepsOf(todo') => Has(y)
    BY <1>3, FlowGo DEF CheckPrepared, Leads
  <2>2. UNCHANGED <<cmd, session, engine, state, source, pipeline, reader, lock, rest, click, gui>>
    BY <1>3 DEF CheckPrepared
  <2> QED
    BY <1>1, <2>1, <2>2 DEF Flow, Script, Tokens, Pipelines, Sources, Held, Quiet, Has,
      NothingRuns, Rebuilding
<1>4. CASE CheckPrepared /\ ~Valid(cmd.token)
  <2>1. /\ Point = "check" /\ todo' = Dispose \o <<"idle">>
        /\ UNCHANGED <<cmd, session, engine, state, source, pipeline, reader, lock, rest, click, gui>>
    BY <1>4 DEF CheckPrepared, Abandon, At, Point
  <2>2. /\ Point' = "source" /\ Linked(todo', "rest") /\ StepsOf(todo') = DisposeSteps \cup {"idle"}
    BY <2>1, DisposeThen, Beginning
  <2> QED
    BY <1>1, <2>1, <2>2 DEF Flow, Script, Tokens, Pipelines, Sources, Held,
      Quiet, Has, NothingRuns, Rebuilding, DisposeSteps
<1>5. CASE CreatePipeline
  <2>1. /\ Point = "create" /\ Point' \in {"open", "running"} /\ Linked(todo', "rest")
        /\ \A y : y \in StepsOf(todo') => Has(y)
    BY <1>5, FlowGo DEF CreatePipeline, Go, Leads
  <2>2. /\ pipeline'.token = cmd.token
        /\ UNCHANGED <<cmd, session, engine, state, source, reader, lock, rest, click, gui>>
    BY <1>5 DEF CreatePipeline, Go
  <2>3. cmd.token = session /\ cmd.token > 0
    BY <1>1, <2>1 DEF Flow, Tokens
  <2>4. pipeline' # NoPipeline
    BY <2>2, <2>3 DEF NoPipeline
  <2>5. Point' = "open" => Has("open")
    <3>1. Point' = "open" => "open" \in StepsOf(todo')
      <4>1. SUFFICES ASSUME Point' = "open" PROVE "open" \in StepsOf(todo')
        OBVIOUS
      <4>2. todo' # <<>> /\ Head(todo') = "open"
        BY <4>1 DEF Point
      <4>3. todo' \in Seq(Step)
        BY <1>5, FlowGo DEF CreatePipeline, Go
      <4>4. StepsOf(todo') = {"open"} \cup StepsOf(Tail(todo'))
        BY <2>1, <4>2, <4>3, Rest
      <4> QED
        BY <4>4
    <3> QED
      BY <2>1, <3>1
  <2>6. source # 0 => Point' # "open"
    BY <1>1, <2>1, <2>5 DEF Flow, Sources, Rebuilding
  <2>7. engine /\ state = "starting" /\ (source = 0 => reader.pc = "gone")
    BY <1>1, <2>1 DEF Flow, Held, Sources
  <2> QED
    BY <1>1, <2>1, <2>2, <2>3, <2>4, <2>6, <2>7 DEF Flow, Script, Tokens, Pipelines, Sources, Held,
      Quiet, Has, Rebuilding
<1>6. CASE OpenSource
  <2>1. /\ Point = "open" /\ Point' = "rest" /\ Linked(todo', "rest")
        /\ \A y : y \in StepsOf(todo') => Has(y)
    BY <1>6, FlowGo DEF OpenSource, Go, Leads
  <2>2. /\ source' = cmd.token /\ reader' = [token |-> cmd.token, pc |-> "live"]
        /\ UNCHANGED <<cmd, session, engine, state, pipeline, lock, rest, click, gui>>
    BY <1>6 DEF OpenSource, Go
  <2>3. /\ cmd.token = session /\ cmd.token > 0 /\ engine /\ state = "starting"
        /\ pipeline # NoPipeline
    BY <1>1, <2>1 DEF Flow, Tokens, Held, Pipelines
  <2> QED
    BY <1>1, <2>1, <2>2, <2>3 DEF Flow, Script, Tokens, Pipelines, Sources, Held,
      Quiet, Has, Rebuilding
<1> QED
  BY <1>2, <1>3, <1>4, <1>5, <1>6

\* The state that is shown is the state that was reached.
LEMMA AnnounceFlow ==
  ASSUME SInv, Announce \/ ChangeConnection \/ CancelBroken
  PROVE  Flow'
<1> USE DEF runtime, status, lock, rest, Threads, desk, outside
<1>1. /\ Flow /\ reader \in [token : Nat, pc : {"live", "post", "end", "gone"}]
      /\ intent \in Nat /\ session \in Nat /\ cmd.token \in Nat /\ source \in Nat
      /\ engine \in BOOLEAN /\ pipeline \in [token : Nat, accepting : BOOLEAN]
  BY FlowTypes
<1>2. ASSUME NEW s \in {"running", "idle", "error", "stopping"}, At(s), SetState(s), Announce
      PROVE  Flow'
  <2>1. /\ Point = s /\ Leads(s, Point') /\ Linked(todo', "rest")
        /\ \A y : y \in StepsOf(todo') => Has(y)
    BY <1>2, FlowGo DEF Announce, Go
  <2>2. /\ state' = s
        /\ UNCHANGED <<cmd, source, session, engine, pipeline, reader, lock, rest, click, gui>>
    BY <1>2 DEF Announce, Go, SetState
  <2> QED
    BY <1>1, <2>1, <2>2 DEF Flow, Script, Tokens, Pipelines, Sources, Held, Quiet, Has,
      NothingRuns, Rebuilding, Leads
<1>3. CASE ChangeConnection
  <2>1. PICK x \in {"up", "down"} : At(x)
    BY <1>3 DEF ChangeConnection
  <2>2. /\ Point = x /\ Point' = "rest" /\ Linked(todo', "rest")
        /\ \A y : y \in StepsOf(todo') => Has(y)
    BY <1>3, <2>1, FlowGo DEF ChangeConnection, Go, Leads
  <2>3. /\ state' \in {"running", "starting"}
        /\ UNCHANGED <<cmd, source, session, engine, pipeline, reader, lock, rest, click, gui>>
    BY <1>3 DEF ChangeConnection, Go, SetState
  <2> QED
    BY <1>1, <2>2, <2>3 DEF Flow, Script, Tokens, Pipelines, Sources, Held, Quiet, Has,
      NothingRuns, Rebuilding
<1>4. CASE CancelBroken
  <2>1. /\ Point = "cancel" /\ Point' = "rest" /\ Linked(todo', "rest")
        /\ \A y : y \in StepsOf(todo') => Has(y)
    BY <1>4, FlowGo DEF CancelBroken, Go, Leads
  <2>2. /\ pipeline' = [pipeline EXCEPT !.accepting = FALSE]
        /\ UNCHANGED <<cmd, source, session, engine, state, reader, lock, rest, click, gui>>
    BY <1>4 DEF CancelBroken, Go, CancelPipeline
  <2>3. pipeline # NoPipeline => pipeline.token # 0
    BY <1>1 DEF Flow, Pipelines
  <2>4. pipeline'.token = pipeline.token /\ (pipeline' = NoPipeline <=> pipeline = NoPipeline)
    <3>1. pipeline'.token = pipeline.token
      BY <1>1, <2>2
    <3>2. pipeline = NoPipeline => pipeline' = NoPipeline
      <4>1. pipeline' \in [token : Nat, accepting : BOOLEAN] /\ pipeline'.accepting = FALSE
        BY <1>1, <2>2
      <4> QED
        BY <3>1, <4>1 DEF NoPipeline
    <3>3. NoPipeline.token = 0
      BY DEF NoPipeline
    <3> QED
      BY <2>3, <3>1, <3>2, <3>3
  <2> QED
    BY <1>1, <2>1, <2>2, <2>4 DEF Flow, Script, Tokens, Pipelines, Sources, Held, Quiet, Has,
      NothingRuns, Rebuilding
<1> QED
  BY <1>2, <1>3, <1>4 DEF Announce

\* A session that goes on does so under its token, or under a new one.
LEMMA RenewFlow ==
  ASSUME SInv, Renew
  PROVE  Flow'
<1> USE DEF runtime, status, lock, rest, Threads, desk, outside
<1>1. /\ Flow /\ reader \in [token : Nat, pc : {"live", "post", "end", "gone"}]
      /\ intent \in Nat /\ session \in Nat /\ cmd.token \in Nat /\ source \in Nat
      /\ engine \in BOOLEAN /\ cmd \in CommandType /\ click \in Nat /\ muted \in Nat
  BY FlowTypes
<1>2. DOMAIN commands = 1..Len(commands) /\ \A i \in DOMAIN commands : commands[i].token \in Nat
  BY FlowTypes, Queued
<1>3. UNCHANGED <<state, session, source, engine, pipeline, reader, commands, rest, click, gui>>
  BY DEF Renew
<1>4. CASE At("again")
  <2>1. /\ Point = "again" /\ Point' = "prepare" /\ Linked(todo', "rest") /\ Has("again")
        /\ \A y : y \in StepsOf(todo') => Has(y)
    BY <1>4, FlowGo DEF Renew, Leads
  <2>2. cmd' = [cmd EXCEPT !.token = session] /\ intent' = intent
    BY <1>4 DEF Renew, At
  <2>3. cmd'.token = session /\ cmd'.kind = cmd.kind
    BY <1>1, <2>2 DEF CommandType
  <2> QED
    BY <1>1, <1>2, <1>3, <2>1, <2>2, <2>3 DEF Flow, Script, Tokens, Pipelines, Sources, Held,
      Quiet, Has, NothingRuns, Rebuilding
<1>5. CASE At("renew")
  <2>1. /\ Point = "renew" /\ Point' \in {"prepare", "source"} /\ Linked(todo', "rest")
        /\ \A y : y \in StepsOf(todo') => Has(y)
    BY <1>5, FlowGo DEF Renew, Leads
  <2>2. cmd' = [cmd EXCEPT !.token = intent + 1] /\ intent' = intent + 1
    BY <1>5 DEF Renew, At
  <2>3. cmd'.token = intent + 1 /\ cmd'.kind = cmd.kind
    BY <1>1, <2>2 DEF CommandType
  <2>4. source = 0 /\ pipeline = NoPipeline
    BY <1>1, <2>1 DEF Flow, Sources, Pipelines
  <2>5. Script'
    BY <1>1, <1>3, <2>1, <2>2, <2>3 DEF Flow, Script, Has
  <2>6. Tokens'
    BY <1>1, <1>2, <1>3, <2>1, <2>2, <2>3 DEF Flow, Tokens
  <2> QED
    BY <1>1, <1>3, <2>1, <2>4, <2>5, <2>6 DEF Flow, Pipelines, Sources, Held, Quiet, Has,
      NothingRuns, Rebuilding
<1> QED
  BY <1>4, <1>5 DEF Renew

\* A comment that passes the test of its token belongs to the session.
LEMMA ReceiveFlow ==
  ASSUME SInv, Receive
  PROVE  Flow'
<1> USE DEF runtime, status, lock, rest, Threads, desk, outside
<1>1. /\ Flow /\ reader \in [token : Nat, pc : {"live", "post", "end", "gone"}]
      /\ intent \in Nat /\ session \in Nat /\ cmd.token \in Nat /\ source \in Nat
      /\ engine \in BOOLEAN /\ cmd \in CommandType /\ todo \in Seq(Step)
  BY FlowTypes
<1>2. UNCHANGED <<state, session, source, engine, pipeline, reader, lock, rest, click, gui>>
  BY DEF Receive
<1> DEFINE token == IF At("receive") THEN cmd.token ELSE session
<1>3. /\ cmd' = [cmd EXCEPT !.token = token]
      /\ todo' = IF Valid(token) THEN Tail(todo) ELSE SkipSubmit
  BY DEF Receive
<1>4. PICK x \in {"receive", "receiveTest"} : At(x)
  BY DEF Receive
<1>5. /\ cmd'.token = token /\ cmd'.kind = cmd.kind /\ Point = x
      /\ x = "receive" => token = cmd.token /\ cmd.token <= session
      /\ x = "receiveTest" => token = session
  BY <1>1, <1>3, <1>4 DEF CommandType, At, Point, Flow, Tokens
<1>6. token \in Nat /\ token <= intent /\ (Valid(token) => token = session)
  BY <1>1, <1>4, <1>5 DEF Valid, Current, Flow, Tokens
<1>7. /\ todo # <<>> /\ Head(todo) = x /\ Linked(todo, "rest")
  BY <1>1, <1>4 DEF At, Flow, Script
<1>8. /\ Tail(todo) # <<>> /\ Head(Tail(todo)) = "submit" /\ Tail(todo) \in Seq(Step)
      /\ Linked(Tail(todo), "rest") /\ StepsOf(Tail(todo)) \subseteq StepsOf(todo)
  <2>1. /\ Tail(todo) \in Seq(Step) /\ Linked(Tail(todo), "rest")
        /\ Leads(x, IF Tail(todo) = <<>> THEN "rest" ELSE Head(Tail(todo)))
        /\ StepsOf(todo) = {Head(todo)} \cup StepsOf(Tail(todo))
    BY <1>1, <1>7, Rest
  <2> QED
    BY <1>4, <2>1 DEF Leads
<1>9. /\ Linked(SkipSubmit, "rest") /\ StepsOf(SkipSubmit) \subseteq StepsOf(todo)
      /\ SkipSubmit = <<>> \/ Head(SkipSubmit) \in {"release", "rest"}
  <2> DEFINE r == Tail(todo)
  <2>1. /\ r \in Seq(Step) /\ r # <<>> /\ Linked(r, "rest") /\ Head(r) = "submit"
        /\ StepsOf(r) \subseteq StepsOf(todo) /\ SkipSubmit = Tail(r)
    BY <1>8 DEF SkipSubmit
  <2> HIDE DEF r
  <2>2. /\ Linked(Tail(r), "rest") /\ StepsOf(r) = {Head(r)} \cup StepsOf(Tail(r))
        /\ Leads(Head(r), IF Tail(r) = <<>> THEN "rest" ELSE Head(Tail(r)))
    BY <2>1, Rest
  <2> QED
    BY <2>1, <2>2 DEF Leads
<1> HIDE DEF token
<1>10. /\ Linked(todo', "rest") /\ \A y : y \in StepsOf(todo') => Has(y)
       /\ Valid(token) => Point' = "submit"
       /\ ~Valid(token) => Point' \in {"release", "rest"}
  BY <1>3, <1>8, <1>9 DEF Point, Has
<1>11. Point' = "rest" => StepsOf(todo') = {}
  BY <1>10, AtEnd DEF Linked
<1> QED
  BY <1>1, <1>2, <1>4, <1>5, <1>6, <1>10, <1>11 DEF Flow, Script, Tokens, Pipelines, Sources, Held,
    Quiet, Has, NothingRuns, Rebuilding

\* The last steps of a script.
LEMMA EndFlow ==
  ASSUME SInv, Submit \/ ReleaseSlot \/ Finish
  PROVE  Flow'
<1> USE DEF runtime, status, lock, Threads, desk, outside
<1>1. /\ Flow /\ reader \in [token : Nat, pc : {"live", "post", "end", "gone"}]
      /\ intent \in Nat /\ session \in Nat /\ cmd.token \in Nat /\ source \in Nat
      /\ engine \in BOOLEAN
  BY FlowTypes
<1>2. PICK x \in {"submit", "release", "finish"} : At(x)
  BY DEF Submit, ReleaseSlot, Finish
<1>3. /\ Go
      /\ UNCHANGED <<state, session, source, engine, pipeline, reader, lock, muted, click, gui>>
  BY DEF Submit, ReleaseSlot, Finish
<1>4. /\ Point = x /\ Point' \in {"release", "rest"} /\ Linked(todo', "rest") /\ cmd' = cmd
      /\ \A y : y \in StepsOf(todo') => Has(y)
      /\ Point' = "rest" => StepsOf(todo') = {}
  BY <1>2, <1>3, FlowGo DEF Go, Leads
<1> QED
  BY <1>1, <1>2, <1>3, <1>4 DEF Flow, Script, Tokens, Pipelines, Sources, Held, Quiet, Has,
    NothingRuns, Rebuilding

\* What is known when control takes a command from the queue.
LEMMA Taken ==
  ASSUME SInv, NEW kind, Takes(kind)
  PROVE  /\ todo = <<>> /\ Point = "rest" /\ StepsOf(todo) = {}
         /\ commands # <<>> /\ commands' = Tail(commands) /\ commands' \in Seq(CommandType)
         /\ 1 \in DOMAIN commands /\ cmd' = commands[1] /\ cmd' \in CommandType
         /\ cmd'.kind = kind /\ cmd'.token \in Nat
         /\ Len(commands) \in Nat \ {0} /\ Len(commands') = Len(commands) - 1
         /\ DOMAIN commands = 1..Len(commands) /\ DOMAIN commands' = 1..Len(commands) - 1
         /\ \A i \in DOMAIN commands' : i + 1 \in DOMAIN commands /\ commands'[i] = commands[i + 1]
         /\ UNCHANGED <<intent, closing, runtime, status, desk, outside, rest>>
<1>1. /\ todo = <<>> /\ commands # <<>> /\ commands' = Tail(commands) /\ cmd' = Head(commands)
      /\ Head(commands).kind = kind
      /\ UNCHANGED <<intent, closing, runtime, status, desk, outside, rest>>
  BY DEF Takes
<1>2. commands \in Seq(CommandType) /\ TypeOK
  BY FlowTypes
<1>3. /\ Len(commands) \in Nat /\ DOMAIN commands = 1..Len(commands)
      /\ \A i \in DOMAIN commands : commands[i] \in CommandType /\ commands[i].token \in Nat
  BY <1>2, Queued
<1>4. Len(commands) # 0
  BY <1>1, <1>2, EmptySeq
<1>5. /\ Head(commands) = commands[1] /\ Tail(commands) \in Seq(CommandType)
      /\ Len(Tail(commands)) = Len(commands) - 1
      /\ \A i \in 1..Len(Tail(commands)) : Tail(commands)[i] = commands[i + 1]
  BY <1>1, <1>2, HeadTailProperties
<1>6. DOMAIN commands' = 1..Len(commands')
  BY <1>1, <1>5, LenProperties
<1>7. Point = "rest" /\ StepsOf(todo) = {}
  BY <1>1 DEF Point, StepsOf
<1> QED
  BY <1>1, <1>3, <1>4, <1>5, <1>6, <1>7

\* Between two commands a source is served, and what is there belongs to the session.
LEMMA AtRest ==
  ASSUME SInv, Point = "rest"
  PROVE  /\ source # 0 => source = session /\ pipeline # NoPipeline /\ engine /\ intent > 0
         /\ source = 0 => reader.pc = "gone"
         /\ pipeline # NoPipeline => pipeline.token = session /\ session > 0
         /\ engine /\ pipeline = NoPipeline => state = "starting"
<1>1. Flow /\ source \in Nat /\ session \in Nat /\ intent \in Nat
  BY FlowTypes
<1> QED
  BY <1>1 DEF Flow, Tokens, Pipelines, Sources, Held, Rebuilding

\* Where a script may begin, with what steps, for what command.
Opens(kind, first, steps) ==
  /\ first \in {"source", "stopping", "receive", "receiveTest", "rest", "cancel", "up", "down",
                "renew", "pipeline"}
  /\ first = "receive" => kind = "comment"
  /\ first \in {"up", "down"} => source # 0
  /\ first = "renew" => pipeline = NoPipeline
  /\ first = "pipeline" => kind = "engine" /\ "open" \notin steps
  /\ "current" \in steps => intent > 0
  /\ "again" \in steps => session > 0
  /\ "finish" \in steps => kind = "shutdown"
  /\ "release" \in steps => first = "receive"

\* A command whose script begins with a step that finds what it needs is in
\* the flow.
LEMMA OpenFlow ==
  ASSUME SInv, NEW kind, Takes(kind), NEW steps, Opens(kind, Point', steps),
         Linked(todo', "rest"), StepsOf(todo') = steps,
         Point' = "pipeline" => 3 <= Len(todo') /\ todo'[3] = "again"
  PROVE  Flow' /\ Point' # "submit"
<1>1. /\ Flow /\ reader \in [token : Nat, pc : {"live", "post", "end", "gone"}]
      /\ intent \in Nat /\ session \in Nat /\ source \in Nat /\ engine \in BOOLEAN
  BY FlowTypes
<1>2. /\ Point = "rest"
      /\ 1 \in DOMAIN commands /\ cmd' = commands[1] /\ cmd'.kind = kind /\ cmd'.token \in Nat
      /\ UNCHANGED <<intent, closing, runtime, status, desk, outside, rest>>
  BY Taken
<1>3. \A i \in DOMAIN commands' : i + 1 \in DOMAIN commands /\ commands'[i] = commands[i + 1]
  BY Taken
<1>4. UNCHANGED <<intent, session, click, muted, reader, gui, source, pipeline, engine, state>>
  BY <1>2 DEF runtime, status, desk, rest
<1>5. /\ source # 0 => source = session /\ pipeline # NoPipeline /\ engine /\ intent > 0
      /\ source = 0 => reader.pc = "gone"
      /\ pipeline # NoPipeline => pipeline.token = session /\ session > 0
      /\ engine /\ pipeline = NoPipeline => state = "starting"
  BY <1>2, AtRest
<1>6. /\ cmd'.token <= intent /\ (kind = "comment" => cmd'.token <= session)
  BY <1>1, <1>2 DEF Flow, Tokens
<1>7. Script'
  BY <1>1, <1>2, <1>4 DEF Opens, Script, Has
<1>8. Tokens'
  <2>1. ASSUME NEW i \in DOMAIN commands'
        PROVE  /\ commands'[i].token <= intent'
               /\ commands'[i].kind = "comment" => commands'[i].token <= session'
               /\ commands'[i].kind = "start" => intent' > 0
               /\ commands'[i].kind = "connection" => commands'[i].arg \in {"up", "down"}
    <3> DEFINE k == i + 1
    <3>1. k \in DOMAIN commands /\ commands'[i] = commands[k]
      BY <1>3
    <3> HIDE DEF k
    <3> QED
      BY <1>1, <1>4, <3>1 DEF Flow, Tokens
  <2> QED
    BY <1>1, <1>2, <1>4, <1>6, <2>1 DEF Opens, Flow, Tokens
<1>9. Pipelines' /\ Sources' /\ Held' /\ Quiet'
  BY <1>1, <1>2, <1>4, <1>5 DEF Opens, Pipelines, Sources, Held, Quiet, Flow, Has, NothingRuns,
    Rebuilding
<1>10. Point' # "submit"
  BY DEF Opens
<1> QED
  BY <1>7, <1>8, <1>9, <1>10 DEF Flow

\* Each command begins its script.
LEMMA TakeFlow ==
  ASSUME SInv, TakeStart \/ TakeStop \/ TakeTest \/ TakeComment \/ TakeConnection
  PROVE  Flow' /\ Point' # "submit"
<1>1. CASE TakeStart
  <2>1. /\ Takes("start") /\ todo' = StartSteps
    BY <1>1 DEF TakeStart
  <2>2. intent > 0
    BY <2>1, Taken, FlowTypes DEF Flow, Tokens
  <2>3. /\ Linked(todo', "rest") /\ Point' = "source"
        /\ StepsOf(todo') = DisposeSteps \cup {"current", "save"} \cup PrepareSteps \cup {"open"}
    BY <2>1, StartScript, Beginning
  <2> QED
    BY <2>1, <2>2, <2>3, OpenFlow DEF Opens, DisposeSteps, PrepareSteps
<1>2. CASE TakeStop
  <2>1. Takes("stop") /\ todo' = <<"stopping">> \o Dispose \o <<"idle">>
    BY <1>2 DEF TakeStop
  <2>2. /\ Linked(todo', "rest") /\ Point' = "stopping"
        /\ StepsOf(todo') = {"stopping"} \cup DisposeSteps \cup {"idle"}
    BY <2>1, StopScript, Beginning
  <2> QED
    BY <2>1, <2>2, OpenFlow DEF Opens, DisposeSteps
<1>3. CASE TakeTest
  <2>1. Takes("test")
    BY <1>3 DEF TakeTest
  <2>2. CASE pipeline = NoPipeline
    <3>1. todo' = (<<"renew">> \o Prepare \o <<"running">>) \o <<"receiveTest", "submit">>
      BY <1>3, <2>2 DEF TakeTest
    <3>2. /\ Linked(todo', "rest") /\ Point' = "renew"
          /\ StepsOf(todo') = {"renew"} \cup PrepareSteps \cup {"running"}
                              \cup {"receiveTest", "submit"}
      BY <3>1, TestScript, Beginning
    <3> QED
      BY <2>1, <2>2, <3>2, OpenFlow DEF Opens, PrepareSteps
  <2>3. CASE pipeline # NoPipeline
    <3>1. todo' = <<>> \o <<"receiveTest", "submit">>
      BY <1>3, <2>3 DEF TakeTest
    <3>2. /\ Linked(todo', "rest") /\ Point' = "receiveTest"
          /\ StepsOf(todo') = {"receiveTest", "submit"}
      BY <3>1, TestScript, Beginning
    <3> QED
      BY <2>1, <2>3, <3>2, OpenFlow DEF Opens
  <2> QED
    BY <2>2, <2>3
<1>4. CASE TakeComment
  <2>1. Takes("comment") /\ todo' = <<"receive", "submit", "release">>
    BY <1>4 DEF TakeComment
  <2>2. /\ Linked(todo', "rest") /\ Point' = "receive"
        /\ StepsOf(todo') = {"receive", "submit", "release"}
    BY <2>1, ShortScripts, Beginning
  <2> QED
    BY <2>1, <2>2, OpenFlow DEF Opens
<1>5. CASE TakeConnection
  <2>1. Takes("connection")
    BY <1>5 DEF TakeConnection
  <2>2. CASE Valid(Mine) /\ source # 0 /\ connected # (Arg = "up")
    <3>1. todo' = <<Arg>>
      BY <1>5, <2>2 DEF TakeConnection
    <3>2. Arg \in {"up", "down"}
      <4>1. 1 \in DOMAIN commands /\ Head(commands) = commands[1] /\ commands[1].kind = "connection"
        BY <2>1, Taken DEF Takes
      <4> QED
        BY <4>1, FlowTypes DEF Arg, Flow, Tokens
    <3>3. Linked(todo', "rest") /\ Point' = Arg /\ StepsOf(todo') = {Arg}
      BY <3>1, <3>2, ShortScripts, Beginning
    <3> QED
      BY <2>1, <2>2, <3>2, <3>3, OpenFlow DEF Opens
  <2>3. CASE ~(Valid(Mine) /\ source # 0 /\ connected # (Arg = "up"))
    <3>1. Linked(todo', "rest") /\ Point' = "rest" /\ StepsOf(todo') = {}
      BY <1>5, <2>3, Resuming DEF TakeConnection
    <3> QED
      BY <2>1, <3>1, OpenFlow DEF Opens
  <2> QED
    BY <2>2, <2>3
<1> QED
  BY <1>1, <1>2, <1>3, <1>4, <1>5

\* So are the commands that report, apply settings or end the program.
LEMMA TakeMoreFlow ==
  ASSUME SInv, TakeFailed \/ TakeClosed \/ TakeEngine \/ TakeApply \/ TakeShutdown
  PROVE  Flow' /\ Point' # "submit"
<1>1. CASE TakeFailed \/ TakeClosed
  <2>1. PICK kind \in {"failed", "closed"}, a \in {"error", "idle"} :
          Takes(kind) /\ (todo' = Dispose \o <<a>> \/ todo' = <<>>)
    BY <1>1 DEF TakeFailed, TakeClosed
  <2>2. CASE todo' = Dispose \o <<a>>
    <3>1. Linked(todo', "rest") /\ Point' = "source" /\ StepsOf(todo') = DisposeSteps \cup {a}
      BY <2>2, DisposeThen, Beginning
    <3> QED
      BY <2>1, <3>1, OpenFlow DEF Opens, DisposeSteps
  <2>3. CASE todo' = <<>>
    <3>1. Linked(todo', "rest") /\ Point' = "rest" /\ StepsOf(todo') = {}
      BY <2>3, Resuming
    <3> QED
      BY <2>1, <3>1, OpenFlow DEF Opens
  <2> QED
    BY <2>1, <2>2, <2>3
<1>2. CASE TakeEngine
  <2>1. Takes("engine")
    BY <1>2 DEF TakeEngine
  <2>2. CASE todo' = <<>>
    <3>1. Linked(todo', "rest") /\ Point' = "rest" /\ StepsOf(todo') = {}
      BY <2>2, Resuming
    <3> QED
      BY <2>1, <3>1, OpenFlow DEF Opens
  <2>3. CASE todo' = <<"cancel">>
    <3>1. Linked(todo', "rest") /\ Point' = "cancel" /\ StepsOf(todo') = {"cancel"}
      BY <2>3, ShortScripts, Beginning
    <3> QED
      BY <2>1, <3>1, OpenFlow DEF Opens
  <2>4. CASE todo' = AgainSteps /\ pipeline # NoPipeline
    <3>1. /\ Linked(todo', "rest") /\ Point' = "pipeline"
          /\ StepsOf(todo') = {"pipeline", "engine", "again"} \cup PrepareSteps \cup {"running"}
          /\ 3 <= Len(todo') /\ todo'[3] = "again"
      BY <2>4, AgainScript, Beginning
    <3>2. session > 0
      BY <2>1, <2>4, Taken, AtRest
    <3>3. Opens("engine", Point', StepsOf(todo'))
      BY <3>1, <3>2 DEF Opens, PrepareSteps
    <3> QED
      BY <2>1, <3>1, <3>3, OpenFlow
  <2>5. todo' = <<>> \/ todo' = <<"cancel">> \/ (todo' = AgainSteps /\ pipeline # NoPipeline)
    <3> DEFINE again == <<"pipeline", "engine", "again">> \o Prepare \o <<"running">>
    <3>1. todo' = IF Arg # health \/ pipeline = NoPipeline THEN <<>>
                  ELSE IF health # "ready" THEN <<"cancel">>
                  ELSE IF pipeline.accepting THEN <<>> ELSE again
      BY <1>2 DEF TakeEngine
    <3>2. again = AgainSteps
      BY DEF AgainSteps
    <3> HIDE DEF again
    <3> QED
      BY <3>1, <3>2
  <2> QED
    BY <2>2, <2>3, <2>4, <2>5
<1>3. CASE TakeApply
  <2>1. Takes("apply")
    BY <1>3 DEF TakeApply
  <2>2. CASE Arg = "other"
    <3>1. Linked(todo', "rest") /\ Point' = "rest" /\ StepsOf(todo') = {}
      BY <1>3, <2>2, Resuming DEF TakeApply
    <3> QED
      BY <2>1, <3>1, OpenFlow DEF Opens
  <2>3. CASE Arg # "other" /\ pipeline = NoPipeline
    <3>1. todo' = Dispose \o <<>>
      BY <1>3, <2>3 DEF TakeApply
    <3>2. Linked(todo', "rest") /\ Point' = "source" /\ StepsOf(todo') = DisposeSteps
      BY <3>1, ApplyScripts, Beginning
    <3> QED
      BY <2>1, <3>2, OpenFlow DEF Opens, DisposeSteps
  <2>4. CASE Arg # "other" /\ pipeline # NoPipeline /\ source # 0
    <3>1. todo' = Dispose \o (<<"renew">> \o StartSteps)
      BY <1>3, <2>4 DEF TakeApply
    <3>2. /\ Linked(todo', "rest") /\ Point' = "source"
          /\ StepsOf(todo') = DisposeSteps \cup ({"renew"} \cup (DisposeSteps
                                \cup {"current", "save"} \cup PrepareSteps \cup {"open"}))
      BY <3>1, ApplyScripts, Beginning
    <3>3. intent > 0
      BY <2>1, <2>4, Taken, AtRest
    <3> QED
      BY <2>1, <3>2, <3>3, OpenFlow DEF Opens, DisposeSteps, PrepareSteps
  <2>5. CASE Arg # "other" /\ pipeline # NoPipeline /\ source = 0
    <3>1. todo' = Dispose \o (<<"renew">> \o (Prepare \o <<"running">>))
      BY <1>3, <2>5 DEF TakeApply
    <3>2. /\ Linked(todo', "rest") /\ Point' = "source"
          /\ StepsOf(todo') = DisposeSteps \cup ({"renew"} \cup (PrepareSteps \cup {"running"}))
      BY <3>1, ApplyScripts, Beginning
    <3> QED
      BY <2>1, <3>2, OpenFlow DEF Opens, DisposeSteps, PrepareSteps
  <2> QED
    BY <2>2, <2>3, <2>4, <2>5
<1>4. CASE TakeShutdown
  <2>1. Takes("shutdown") /\ todo' = Dispose \o <<"finish">>
    BY <1>4 DEF TakeShutdown
  <2>2. Linked(todo', "rest") /\ Point' = "source" /\ StepsOf(todo') = DisposeSteps \cup {"finish"}
    BY <2>1, DisposeThen, Beginning
  <2> QED
    BY <2>1, <2>2, OpenFlow DEF Opens, DisposeSteps
<1> QED
  BY <1>1, <1>2, <1>3, <1>4

\* The control flow, whatever control does.
LEMMA ControlFlow ==
  ASSUME SInv, Control
  PROVE  Flow'
BY DisposeFlow, CloseEngineFlow, CurrentFlow, MayFailFlow, PrepareFlow, AnnounceFlow, RenewFlow,
   ReceiveFlow, EndFlow, TakeFlow, TakeMoreFlow DEF Control

-----------------------------------------------------------------------------
(***************************************************************************)
(* The queue of commands.                                                  *)
(***************************************************************************)

\* A command that another thread may post now.
Posted(c) ==
  /\ c \in CommandType /\ c.token <= intent
  /\ c.kind = "comment" => c.token <= session /\ reader.pc = "post" /\ reader'.pc = "live"
  /\ c.kind = "start" => intent > 0
  /\ c.kind = "connection" => c.arg \in {"up", "down"}
  /\ IF c.kind = "shutdown" THEN gui = "put" /\ gui' = "closed" ELSE ~closing

\* The user, the GUI thread and the source leave the queue as it is, empty
\* it to close the program, or append one command.
LEMMA OutsideQueue ==
  ASSUME SInv, Outside
  PROVE  \/ commands' = commands /\ (reader'.pc = reader.pc \/ closing \/ reader.pc # "post")
         \/ commands' = <<>> /\ gui = "drain" /\ reader' = reader
         \/ \E c : /\ Posted(c) /\ commands' = Append(commands, c)
                   /\ c.kind = "comment" \/ reader.pc # "post" \/ reader' = reader
<1> USE DEF runtime, status, control, lock, desk, outside, rest
<1>1. /\ Tokens /\ Closes /\ intent \in Nat /\ session \in Nat /\ click \in Nat
      /\ reader \in [token : Nat, pc : {"live", "post", "end", "gone"}]
      /\ closing \in BOOLEAN
  BY FlowTypes DEF Flow, SInv, TypeOK
<1>2. /\ reader.token \in Nat /\ reader.token <= session /\ session <= intent /\ click <= intent
      /\ reader.token <= intent
  BY <1>1 DEF Tokens
<1> DEFINE Goal == \/ commands' = commands /\ (reader'.pc = reader.pc \/ closing \/ reader.pc # "post")
                   \/ commands' = <<>> /\ gui = "drain" /\ reader' = reader
                   \/ \E c : /\ Posted(c) /\ commands' = Append(commands, c)
                             /\ c.kind = "comment" \/ reader.pc # "post" \/ reader' = reader
<1>3. ASSUME NEW c, Post(c), closing \/ Posted(c),
             c.kind = "comment" \/ reader.pc # "post" \/ reader' = reader
      PROVE  Goal
  BY <1>1, <1>3 DEF Post
<1> SUFFICES Goal
  OBVIOUS
<1> HIDE DEF Goal
<1>4. CASE UserStep
  <2>1. CASE ClickStart \/ ClickStop \/ ClickClose
    BY <2>1 DEF ClickStart, ClickStop, ClickClose, NextIntent, Goal
  <2>2. CASE ClickTest
    <3>1. Post(Command("test", 0)) /\ reader' = reader
      BY <2>2 DEF ClickTest
    <3>2. closing \/ Posted(Command("test", 0))
      BY <1>1 DEF Posted, Command, CommandType, Kind
    <3> QED
      BY <1>3, <3>1, <3>2
  <2>3. CASE ClickApply
    <3>1. PICK change \in {"speech", "other"} : Post([Command("apply", 0) EXCEPT !.arg = change])
      BY <2>3 DEF ClickApply
    <3> DEFINE c == [Command("apply", 0) EXCEPT !.arg = change]
    <3>2. closing \/ Posted(c)
      BY <1>1 DEF Posted, Command, CommandType, Kind
    <3>3. reader' = reader
      BY <2>3 DEF ClickApply
    <3> HIDE DEF c
    <3>4. Post(c)
      BY <3>1 DEF c
    <3> QED
      BY <1>3, <3>2, <3>3, <3>4
  <2> QED
    BY <1>4, <2>1, <2>2, <2>3 DEF UserStep
<1>5. CASE GuiStep
  <2>1. CASE PostStart
    <3>1. Post(Command("start", click)) /\ gui = "start" /\ reader' = reader
      BY <2>1 DEF PostStart
    <3>2. closing \/ Posted(Command("start", click))
      BY <1>1, <1>2, <3>1 DEF Posted, Command, CommandType, Kind, Tokens
    <3> QED
      BY <1>3, <3>1, <3>2
  <2>2. CASE PostStop
    <3>1. Post(Command("stop", 0)) /\ reader' = reader
      BY <2>2 DEF PostStop
    <3>2. closing \/ Posted(Command("stop", 0))
      BY <1>1 DEF Posted, Command, CommandType, Kind
    <3> QED
      BY <1>3, <3>1, <3>2
  <2>3. CASE ShutdownPut
    <3>1. /\ commands' = Append(commands, Command("shutdown", 0)) /\ reader' = reader
          /\ gui = "put" /\ gui' = "closed"
      BY <2>3 DEF ShutdownPut
    <3>2. Posted(Command("shutdown", 0))
      BY <1>1, <3>1 DEF Posted, Command, CommandType, Kind
    <3> QED
      BY <3>1, <3>2 DEF Goal
  <2>4. CASE StopCancel \/ DrainCommands \/ ShutdownTest \/ ShutdownCancel \/ Deliver
    BY <2>4 DEF StopCancel, DrainCommands, ShutdownTest, ShutdownCancel, Deliver, Goal
  <2> QED
    BY <1>5, <2>1, <2>2, <2>3, <2>4 DEF GuiStep
<1>6. CASE Reader \/ ReaderConnection \/ ReaderFail
  <2>1. CASE ReaderPost
    <3>1. Post(Command("comment", reader.token)) /\ reader.pc = "post" /\ reader'.pc = "live"
      BY <1>1, <2>1 DEF ReaderPost
    <3>2. closing \/ Posted(Command("comment", reader.token))
      BY <1>1, <1>2, <3>1 DEF Posted, Command, CommandType, Kind
    <3> QED
      BY <1>3, <3>1, <3>2 DEF Command
  <2>2. CASE ReaderStop
    BY <2>2 DEF ReaderStop, Goal
  <2>3. CASE ReaderEnd
    <3>1. Post(Command("closed", reader.token)) /\ reader.pc # "post"
      BY <2>3 DEF ReaderEnd
    <3>2. closing \/ Posted(Command("closed", reader.token))
      BY <1>1, <1>2 DEF Posted, Command, CommandType, Kind
    <3> QED
      BY <1>3, <3>1, <3>2
  <2>4. CASE ReaderConnection
    <3>1. PICK change \in {"up", "down"} :
            Post([Command("connection", reader.token) EXCEPT !.arg = change])
      BY <2>4 DEF ReaderConnection
    <3> DEFINE c == [Command("connection", reader.token) EXCEPT !.arg = change]
    <3>2. closing \/ Posted(c)
      BY <1>1, <1>2 DEF Posted, Command, CommandType, Kind
    <3>3. reader.pc # "post"
      BY <2>4 DEF ReaderConnection
    <3> HIDE DEF c
    <3>4. Post(c)
      BY <3>1 DEF c
    <3> QED
      BY <1>3, <3>2, <3>3, <3>4
  <2>5. CASE ReaderFail
    <3>1. Post(Command("failed", reader.token)) /\ reader.pc # "post"
      BY <2>5 DEF ReaderFail
    <3>2. closing \/ Posted(Command("failed", reader.token))
      BY <1>1, <1>2 DEF Posted, Command, CommandType, Kind
    <3> QED
      BY <1>3, <3>1, <3>2
  <2> QED
    BY <1>6, <2>1, <2>2, <2>3, <2>4, <2>5 DEF Reader
<1>7. CASE ReaderComment \/ PipelineGivesUp
  BY <1>7 DEF ReaderComment, PipelineGivesUp, Goal
<1>8. ASSUME NEW h \in {"ready", "busy", "error"}, EngineChange(h) PROVE Goal
  <2> DEFINE c == [Command("engine", 0) EXCEPT !.arg = h]
  <2>1. closing \/ Posted(c)
    BY <1>1 DEF Posted, Command, CommandType, Kind
  <2>2. reader' = reader /\ Post(c)
    BY <1>8 DEF EngineChange
  <2> HIDE DEF c
  <2> QED
    BY <1>3, <2>1, <2>2
<1> QED
  BY <1>4, <1>5, <1>6, <1>7, <1>8 DEF Outside, Surprise, Goal

\* The queue with one more command.
LEMMA Queueing ==
  ASSUME NEW queue \in Seq(CommandType), NEW c \in CommandType
  PROVE  /\ Append(queue, c) \in Seq(CommandType)
         /\ Len(queue) \in Nat /\ DOMAIN queue = 1..Len(queue)
         /\ DOMAIN Append(queue, c) = 1..Len(queue) + 1
         /\ \A i \in DOMAIN queue : Append(queue, c)[i] = queue[i]
         /\ Append(queue, c)[Len(queue) + 1] = c
<1>1. Len(queue) \in Nat /\ DOMAIN queue = 1..Len(queue)
  BY LenProperties
<1>2. /\ Append(queue, c) \in Seq(CommandType) /\ Len(Append(queue, c)) = Len(queue) + 1
      /\ \A i \in 1..Len(queue) : Append(queue, c)[i] = queue[i]
      /\ Append(queue, c)[Len(queue) + 1] = c
  BY AppendProperties
<1>3. DOMAIN Append(queue, c) = 1..Len(Append(queue, c))
  BY <1>2, LenProperties
<1> QED
  BY <1>1, <1>2, <1>3

\* The tokens in the queue, whoever posts.
LEMMA OutsideTokens ==
  ASSUME SInv, Outside
  PROVE  Tokens'
<1> USE DEF runtime, status, control, lock, desk, outside, rest
<1>1. /\ Tokens /\ TypeOK /\ intent \in Nat /\ session \in Nat /\ click \in Nat /\ muted \in Nat
      /\ reader \in [token : Nat, pc : {"live", "post", "end", "gone"}]
      /\ commands \in Seq(CommandType) /\ cmd.token \in Nat
  BY FlowTypes DEF Flow
<1>2. /\ UNCHANGED <<todo, cmd, session, Point>> /\ reader'.token = reader.token
      /\ intent' \in Nat /\ intent' >= intent
  BY <1>1, OutsideFrame DEF Point
<1>3. click' <= intent' /\ muted' <= intent' /\ (gui' = "start" => intent' > 0)
  <2>1. CASE UserStep
    BY <1>1, <2>1 DEF UserStep, ClickStart, ClickStop, ClickTest, ClickApply, ClickClose,
      NextIntent, Tokens
  <2>2. CASE GuiStep
    BY <1>1, <2>2 DEF GuiStep, PostStart, StopCancel, PostStop, DrainCommands, ShutdownTest,
      ShutdownCancel, ShutdownPut, Deliver, Tokens
  <2>3. CASE Reader
    BY <1>1, <2>3 DEF Reader, ReaderPost, ReaderStop, ReaderEnd, ReaderOnly, Tokens
  <2>4. CASE Surprise
    BY <1>1, <2>4 DEF Surprise, ReaderComment, ReaderConnection, ReaderFail, PipelineGivesUp,
      EngineChange, ReaderOnly, Tokens
  <2> QED
    BY <2>1, <2>2, <2>3, <2>4 DEF Outside
<1> DEFINE Fits(c) == /\ c.token <= intent'
                      /\ c.kind = "comment" => c.token <= session'
                      /\ c.kind = "start" => intent' > 0
                      /\ c.kind = "connection" => c.arg \in {"up", "down"}
<1>4. \A i \in DOMAIN commands' : Fits(commands'[i])
  <2>1. \A i \in DOMAIN commands : commands[i].token \in Nat
    BY <1>1, Queued
  <2>2. \A i \in DOMAIN commands : Fits(commands[i])
    BY <1>1, <1>2, <2>1 DEF Tokens
  <2>3. ASSUME NEW c, Posted(c) PROVE Fits(c)
    BY <1>1, <1>2, <2>3 DEF Posted, CommandType
  <2> HIDE DEF Fits
  <2>4. CASE commands' = commands
    BY <2>2, <2>4
  <2>5. CASE commands' = <<>>
    BY <2>5
  <2>6. ASSUME NEW c, Posted(c), commands' = Append(commands, c)
        PROVE  \A i \in DOMAIN commands' : Fits(commands'[i])
    <3>1. c \in CommandType /\ Fits(c)
      BY <2>3, <2>6 DEF Posted
    <3>2. /\ Len(commands) \in Nat /\ DOMAIN commands = 1..Len(commands)
          /\ DOMAIN commands' = 1..Len(commands) + 1
          /\ \A i \in DOMAIN commands : commands'[i] = commands[i]
          /\ commands'[Len(commands) + 1] = c
      BY <1>1, <2>6, <3>1, Queueing
    <3> QED
      BY <2>2, <3>1, <3>2
  <2> QED
    BY <2>4, <2>5, <2>6, OutsideQueue
<1> QED
  BY <1>1, <1>2, <1>3, <1>4 DEF Tokens

\* The end of the program, seen from the other threads.
LEMMA OutsideCloses ==
  ASSUME SInv, Outside
  PROVE  Closes'
<1> USE DEF runtime, status, control, lock, desk, outside, rest
<1>1. /\ Closes /\ closing \in BOOLEAN /\ commands \in Seq(CommandType)
      /\ reader \in [token : Nat, pc : {"live", "post", "end", "gone"}]
      /\ pipeline \in [token : Nat, accepting : BOOLEAN]
  BY FlowTypes DEF SInv, TypeOK
<1>2. /\ UNCHANGED <<todo, cmd, source, engine, completed>>
      /\ reader.pc = "gone" => reader'.pc = "gone"
      /\ pipeline = NoPipeline => pipeline' = NoPipeline
  BY <1>1, OutsideFrame DEF NoPipeline
<1> DEFINE Ending == {"drain", "test", "cancelNow", "put", "closed", "broken"}
<1>3. /\ closing' \in BOOLEAN /\ (closing' <=> gui' \in Ending)
      /\ gui' = "closed" => gui \in {"put", "closed"}
      /\ gui = "closed" => gui' = "closed"
      /\ gui' \in {"test", "cancelNow", "put", "broken"} =>
           gui \in {"test", "cancelNow", "put", "broken"} \/ commands' = <<>>
      /\ gui = "put" => commands' = commands \/ gui' = "closed"
  <2>1. CASE UserStep
    <3>1. gui = "idle" /\ ~closing
      BY <2>1 DEF UserStep, ClickStart, ClickStop, ClickTest, ClickApply, ClickClose, UserMay
    <3>2. closing = FALSE
      BY <1>1, <3>1
    <3>3. \/ closing' = closing /\ gui' \in {"idle", "start", "cancel"}
          \/ closing' = TRUE /\ gui' = "drain"
      BY <2>1, <3>1 DEF UserStep, ClickStart, ClickStop, ClickTest, ClickApply, ClickClose
    <3>4. CASE closing' = FALSE /\ gui' \in {"idle", "start", "cancel"}
      BY <3>1, <3>4
    <3>5. CASE closing' = TRUE /\ gui' = "drain"
      BY <3>1, <3>5
    <3> QED
      BY <3>2, <3>3, <3>4, <3>5
  <2>2. CASE GuiStep
    BY <1>1, <2>2 DEF GuiStep, PostStart, StopCancel, PostStop, DrainCommands, ShutdownTest,
      ShutdownCancel, ShutdownPut, Deliver, Closes
  <2>3. CASE Reader
    BY <1>1, <2>3 DEF Reader, ReaderPost, ReaderStop, ReaderEnd, ReaderOnly, Closes, Post
  <2>4. CASE Surprise
    BY <1>1, <2>4 DEF Surprise, ReaderComment, ReaderConnection, ReaderFail, PipelineGivesUp,
      EngineChange, ReaderOnly, Closes, Post
  <2> QED
    BY <2>1, <2>2, <2>3, <2>4 DEF Outside
<1>4. completed' => cmd'.kind = "shutdown" /\ todo' = <<>> /\ NothingRuns'
  BY <1>1, <1>2 DEF Closes, NothingRuns
<1>5. CASE commands' = commands
  <2>1. gui' = "closed" => \/ commands' = <<>>
                           \/ Len(commands') = 1 /\ commands'[1].kind = "shutdown"
    BY <1>1, <1>3, <1>5 DEF Closes
  <2> QED
    BY <1>1, <1>2, <1>3, <1>4, <1>5, <2>1 DEF Closes
<1>6. CASE commands' = <<>>
  BY <1>1, <1>2, <1>3, <1>4, <1>6 DEF Closes
<1>7. ASSUME NEW c, Posted(c), commands' = Append(commands, c)
      PROVE  Closes'
  <2>1. c \in CommandType
    BY <1>7 DEF Posted
  <2>2. /\ Len(commands) \in Nat /\ DOMAIN commands = 1..Len(commands)
        /\ DOMAIN commands' = 1..Len(commands) + 1
        /\ \A i \in DOMAIN commands : commands'[i] = commands[i]
        /\ commands'[Len(commands) + 1] = c
        /\ commands' \in Seq(CommandType)
    BY <1>1, <1>7, <2>1, Queueing
  <2>3. CASE c.kind = "shutdown"
    <3>1. gui = "put" /\ gui' = "closed" /\ commands = <<>>
      BY <1>1, <1>7, <2>3 DEF Posted, Closes
    <3>2. Len(commands) = 0
      BY <3>1
    <3>3. Len(commands') = 1
      BY <1>7, <3>1
    <3>4. commands'[1] = c
      BY <2>2, <3>2
    <3> QED
      BY <1>1, <1>2, <1>3, <1>4, <2>3, <3>1, <3>3, <3>4 DEF Closes
  <2>4. CASE c.kind # "shutdown"
    <3>1. ~closing
      BY <1>7, <2>4 DEF Posted
    <3>2. gui \notin Ending /\ cmd.kind # "shutdown"
      BY <1>1, <3>1 DEF Closes
    <3>3. gui' \notin {"closed", "test", "cancelNow", "put", "broken"}
      <4>1. commands' # <<>>
        BY <1>7
      <4> QED
        BY <1>3, <3>2, <4>1
    <3>4. \A i \in DOMAIN commands' : commands'[i].kind # "shutdown"
      <4>1. \A i \in DOMAIN commands : commands[i].kind # "shutdown"
        BY <1>1, <3>2 DEF Closes
      <4> QED
        BY <2>2, <2>4, <4>1
    <3> QED
      BY <1>1, <1>2, <1>3, <1>4, <3>2, <3>3, <3>4 DEF Closes
  <2> QED
    BY <2>3, <2>4
<1> QED
  BY <1>5, <1>6, <1>7, OutsideQueue

-----------------------------------------------------------------------------
(***************************************************************************)
(* The slots of the comments.                                              *)
(***************************************************************************)

\* An empty queue holds no comment.
LEMMA NoComments == Cardinality(Comments(<<>>)) = 0
<1>1. Comments(<<>>) = {}
  BY DEF Comments
<1> QED
  BY <1>1, FS_EmptySet

\* The comments in a queue are finitely many, and a command adds itself.
LEMMA CommentsAppended ==
  ASSUME NEW queue \in Seq(CommandType), NEW c \in CommandType
  PROVE  /\ IsFiniteSet(Comments(queue)) /\ Cardinality(Comments(queue)) \in Nat
         /\ Cardinality(Comments(Append(queue, c)))
              = Cardinality(Comments(queue)) + IF c.kind = "comment" THEN 1 ELSE 0
<1> DEFINE n == Len(queue)
           more == Append(queue, c)
           Old == Comments(queue)
           New == Comments(more)
<1>1. /\ n \in Nat /\ DOMAIN queue = 1..n /\ DOMAIN more = 1..n + 1
      /\ \A i \in 1..n : more[i] = queue[i]
      /\ more[n + 1] = c
  BY Queueing
<1>2. IsFiniteSet(1..n)
  BY <1>1, FS_Interval
<1>3. Old \subseteq 1..n /\ IsFiniteSet(Old)
  BY <1>1, <1>2, FS_Subset DEF Comments
<1>4. n + 1 \notin Old
  BY <1>1, <1>3
<1>5. New = IF c.kind = "comment" THEN Old \cup {n + 1} ELSE Old
  <2> HIDE DEF n, more
  <2>1. \A i : i \in 1..n + 1 <=> i \in 1..n \/ i = n + 1
    BY <1>1
  <2>2. ~(n + 1 \in 1..n)
    BY <1>1
  <2> QED
    BY <1>1, <2>1, <2>2 DEF Comments
<1>6. Cardinality(Old) \in Nat
  BY <1>3, FS_CardinalityType
<1>7. Cardinality(Old \cup {n + 1}) = Cardinality(Old) + 1
  BY <1>3, <1>4, FS_AddElement
<1> HIDE DEF Old, New, n, more
<1>8. Cardinality(New) = Cardinality(Old) + IF c.kind = "comment" THEN 1 ELSE 0
  BY <1>5, <1>6, <1>7
<1> QED
  BY <1>3, <1>6, <1>8 DEF Old, New, more

\* Taking a comment from a queue leaves the others.
LEMMA CommentsTaken ==
  ASSUME NEW queue \in Seq(CommandType), queue # <<>>
  PROVE  /\ Cardinality(Comments(Tail(queue))) \in Nat
         /\ Cardinality(Comments(queue))
              = Cardinality(Comments(Tail(queue))) + IF queue[1].kind = "comment" THEN 1 ELSE 0
<1> DEFINE n == Len(queue)
           less == Tail(queue)
           Old == Comments(queue)
           New == Comments(less)
           shift == [i \in New |-> i + 1]
<1>1. /\ n \in Nat \ {0} /\ DOMAIN queue = 1..n /\ DOMAIN less = 1..n - 1
      /\ \A i \in 1..n - 1 : less[i] = queue[i + 1]
      /\ less \in Seq(CommandType)
  <2>1. n \in Nat /\ DOMAIN queue = 1..n /\ n # 0
    BY LenProperties, EmptySeq
  <2>2. less \in Seq(CommandType) /\ Len(less) = n - 1 /\ \A i \in 1..n - 1 : less[i] = queue[i + 1]
    BY HeadTailProperties
  <2>3. DOMAIN less = 1..Len(less)
    BY <2>2, LenProperties
  <2> QED
    BY <2>1, <2>2, <2>3
<1>2. IsFiniteSet(1..n) /\ IsFiniteSet(1..n - 1)
  BY <1>1, FS_Interval
<1>3. /\ Old \subseteq 1..n /\ IsFiniteSet(Old) /\ New \subseteq 1..n - 1 /\ IsFiniteSet(New)
  BY <1>1, <1>2, FS_Subset DEF Comments
<1>4. shift \in Bijection(New, Old \ {1})
  <2> HIDE DEF n, less
  <2>1. ASSUME NEW i \in New PROVE i + 1 \in Old \ {1} /\ i \in Int
    <3> DEFINE k == i + 1
    <3>1. i \in 1..n - 1 /\ less[i].kind = "comment"
      BY <1>1 DEF Comments
    <3>2. k \in 1..n /\ k # 1 /\ less[i] = queue[k] /\ i \in Int
      BY <1>1, <3>1
    <3> HIDE DEF k
    <3>3. k \in Old \ {1}
      BY <1>1, <3>1, <3>2 DEF Comments
    <3> QED
      BY <3>2, <3>3 DEF k
  <2>2. ASSUME NEW j \in Old \ {1} PROVE \E i \in New : shift[i] = j
    <3> DEFINE k == j - 1
    <3>1. j \in 1..n /\ j # 1 /\ queue[j].kind = "comment"
      BY <1>1 DEF Comments
    <3>2. k \in 1..n - 1 /\ less[k] = queue[j] /\ k + 1 = j
      BY <1>1, <3>1
    <3> HIDE DEF k
    <3>3. k \in New
      BY <1>1, <3>1, <3>2 DEF Comments
    <3> QED
      BY <3>2, <3>3
  <2> HIDE DEF New, Old
  <2>3. shift \in [New -> Old \ {1}]
    BY <2>1
  <2>4. \A a, b \in New : shift[a] = shift[b] => a = b
    BY <2>1
  <2> QED
    BY <2>2, <2>3, <2>4 DEF Bijection, Injection, Surjection, IsInjective
<1>5. 1 \in Old <=> queue[1].kind = "comment"
  BY <1>1 DEF Comments
<1> DEFINE Others == Old \ {1}
<1> HIDE DEF Old, New, shift, n, less
<1>6. IsFiniteSet(Others) /\ Cardinality(Others) = Cardinality(New)
  <2>1. ExistsBijection(New, Others)
    BY <1>4 DEF ExistsBijection
  <2> QED
    BY <1>3, <2>1, FS_Bijection
<1>7. Cardinality(New) \in Nat /\ Cardinality(Old) \in Nat
  BY <1>3, FS_CardinalityType
<1>8. Cardinality(Others) = IF 1 \in Old THEN Cardinality(Old) - 1 ELSE Cardinality(Old)
  BY <1>3, FS_RemoveElement
<1> HIDE DEF Others
<1>9. Cardinality(Old) = Cardinality(New) + IF queue[1].kind = "comment" THEN 1 ELSE 0
  BY <1>5, <1>6, <1>7, <1>8
<1> QED
  BY <1>7, <1>9 DEF Old, New, less

\* A comment that is posted takes the slot it waits under along.
LEMMA OutsideSlots ==
  ASSUME SInv, Outside
  PROVE  Slots'
<1> USE DEF runtime, status, control, lock, desk, outside, rest
<1>1. /\ Slots /\ closing \in BOOLEAN /\ commands \in Seq(CommandType) /\ slots \in Nat
      /\ reader \in [token : Nat, pc : {"live", "post", "end", "gone"}]
      /\ gui = "drain" => closing
  BY FlowTypes DEF SInv, TypeOK, Closes
<1>2. /\ UNCHANGED <<todo, Point, Has("release")>>
      /\ closing' = closing \/ closing' = TRUE
  <2>1. todo' = todo /\ (closing' = closing \/ closing' = TRUE)
    BY OutsideFrame
  <2> QED
    BY <2>1 DEF Point, Has, StepsOf
<1>3. \/ slots' = slots /\ (reader'.pc = "post" => reader.pc = "post")
      \/ slots' = slots + 1 /\ reader.pc = "live" /\ reader'.pc = "post" /\ commands' = commands
  <2>1. CASE UserStep \/ GuiStep
    BY <2>1 DEF UserStep, ClickStart, ClickStop, ClickTest, ClickApply, ClickClose, GuiStep,
      PostStart, StopCancel, PostStop, DrainCommands, ShutdownTest, ShutdownCancel, ShutdownPut,
      Deliver
  <2>2. CASE Reader
    BY <1>1, <2>2 DEF Reader, ReaderPost, ReaderStop, ReaderEnd, ReaderOnly
  <2>3. CASE Surprise
    BY <1>1, <2>3 DEF Surprise, ReaderComment, ReaderConnection, ReaderFail, PipelineGivesUp,
      EngineChange, ReaderOnly
  <2> QED
    BY <2>1, <2>2, <2>3 DEF Outside
<1> DEFINE Posting == IF reader.pc = "post" THEN 1 ELSE 0
           Waiting == Cardinality(Comments(commands))
           Held1 == IF Has("release") THEN 1 ELSE 0
<1>4. Waiting \in Nat /\ Posting \in 0..1 /\ Posting' \in 0..1 /\ Held1 \in 0..1 /\ Held1' = Held1
  <2>1. Command("none", 0) \in CommandType
    BY DEF Command, CommandType, Kind
  <2>2. Waiting \in Nat
    BY <1>1, <2>1, CommentsAppended
  <2> QED
    BY <1>2, <2>2
<1>5. /\ Owed = Posting + Waiting + Held1 /\ Owed' = Posting' + Waiting' + Held1'
  BY DEF Owed
<1>6. /\ Posting + Waiting + Held1 <= slots
      /\ ~closing => slots = Posting + Waiting + Held1
  BY <1>1, <1>5 DEF Slots
<1> HIDE DEF Waiting, Held1
<1>7. /\ Posting' + Waiting' + Held1 <= slots' /\ Waiting' \in Nat
      /\ ~closing' => slots' = Posting' + Waiting' + Held1
  <2>1. CASE commands' = commands /\ (reader'.pc = reader.pc \/ closing \/ reader.pc # "post")
    <3>1. Waiting' = Waiting
      BY <2>1 DEF Waiting
    <3>2. ~closing' => ~closing
      BY <1>1, <1>2
    <3> QED
      BY <1>1, <1>3, <1>4, <1>6, <2>1, <3>1, <3>2
  <2>2. CASE commands' = <<>> /\ gui = "drain" /\ reader' = reader
    <3>1. Waiting' = 0
      BY <2>2, NoComments DEF Waiting
    <3>2. closing' = TRUE
      BY <1>1, <1>2, <2>2
    <3> QED
      BY <1>1, <1>3, <1>4, <1>6, <2>2, <3>1, <3>2
  <2>3. ASSUME NEW c, Posted(c), commands' = Append(commands, c),
               c.kind = "comment" \/ reader.pc # "post" \/ reader' = reader
        PROVE  /\ Posting' + Waiting' + Held1 <= slots' /\ Waiting' \in Nat
               /\ ~closing' => slots' = Posting' + Waiting' + Held1
    <3>1. /\ c \in CommandType
          /\ c.kind = "comment" => reader.pc = "post" /\ reader'.pc = "live"
      BY <2>3 DEF Posted
    <3>2. Waiting' = Waiting + IF c.kind = "comment" THEN 1 ELSE 0
      BY <1>1, <2>3, <3>1, CommentsAppended DEF Waiting
    <3>3. commands' # commands
      <4>1. Len(commands') = Len(commands) + 1 /\ Len(commands) \in Nat
        BY <1>1, <2>3, <3>1, AppendProperties, LenProperties
      <4> QED
        BY <4>1
    <3>4. ~closing' => ~closing
      BY <1>1, <1>2
    <3> QED
      BY <1>1, <1>3, <1>4, <1>6, <2>3, <3>1, <3>2, <3>3, <3>4
  <2> QED
    BY <2>1, <2>2, <2>3, OutsideQueue
<1> QED
  BY <1>4, <1>5, <1>7 DEF Slots

\* A stop mutes what control is about to submit.
LEMMA OutsideSubmits ==
  ASSUME SInv, Outside
  PROVE  Submits'
<1> USE DEF runtime, status, control, lock, desk, outside, rest
<1>1. /\ Submits /\ pipeline \in [token : Nat, accepting : BOOLEAN]
      /\ cmd.token \in Nat /\ click \in Nat /\ muted \in Nat
  BY FlowTypes DEF SInv
<1>2. /\ UNCHANGED <<todo, cmd, spoken, Point>>
      /\ pipeline' = pipeline \/ pipeline' = [pipeline EXCEPT !.accepting = FALSE]
  BY OutsideFrame DEF Point
<1>3. pipeline'.accepting => pipeline.accepting
  BY <1>1, <1>2
<1>4. \/ ~pipeline'.accepting
      \/ muted' = muted /\ (gui' = "stop" => gui = "stop" /\ click' = click)
      \/ muted' = click /\ gui = "stop" /\ gui' = "idle"
  <2>1. CASE UserStep
    BY <2>1 DEF UserStep, ClickStart, ClickStop, ClickTest, ClickApply, ClickClose
  <2>2. CASE GuiStep
    BY <1>1, <2>2 DEF GuiStep, PostStart, StopCancel, PostStop, DrainCommands, ShutdownTest,
      ShutdownCancel, ShutdownPut, Deliver, CancelPipeline
  <2>3. CASE Reader
    BY <2>3 DEF Reader, ReaderPost, ReaderStop, ReaderEnd, ReaderOnly
  <2>4. CASE Surprise
    BY <2>4 DEF Surprise, ReaderComment, ReaderConnection, ReaderFail, PipelineGivesUp,
      EngineChange, ReaderOnly
  <2> QED
    BY <2>1, <2>2, <2>3, <2>4 DEF Outside
<1> QED
  BY <1>1, <1>2, <1>3, <1>4 DEF Submits, SpokenBySameSession

\* The types, whatever the other threads do.
LEMMA OutsideTypes ==
  ASSUME SInv, Outside
  PROVE  TypeOK'
<1> USE DEF runtime, status, control, lock, desk, outside, rest
<1>1. TypeOK /\ commands \in Seq(CommandType)
  BY FlowTypes
<1>2. /\ UNCHANGED <<todo, cmd, state, connected, session, source, engine, spoken, completed>>
      /\ pipeline' = pipeline \/ pipeline' = [pipeline EXCEPT !.accepting = FALSE]
      /\ reader' = reader \/ (reader.pc # "gone" /\ \E p : reader' = [reader EXCEPT !.pc = p])
      /\ intent' = intent \/ intent' = intent + 1
      /\ closing' = closing \/ closing' = TRUE
  BY OutsideFrame
<1>3. commands' \in Seq(CommandType)
  <2>1. ASSUME NEW c, Posted(c), commands' = Append(commands, c)
        PROVE  commands' \in Seq(CommandType)
    BY <1>1, <2>1, Queueing DEF Posted
  <2>2. commands' = <<>> => commands' \in Seq(CommandType)
    OBVIOUS
  <2> QED
    BY <1>1, <2>1, <2>2, OutsideQueue
<1>4. /\ gui' \in {"idle", "start", "cancel", "stop", "drain", "test", "cancelNow", "put",
                   "closed", "broken"}
      /\ click' \in Nat /\ muted' \in Nat
      /\ clicks' \in 0..MaxClicks /\ events' \in 0..MaxEvents /\ slots' \in 0..SlotLimit
      /\ reader' \in [token : Nat, pc : {"live", "post", "end", "gone"}]
      /\ health' \in {"ready", "busy", "error"} /\ news' \in Seq(State) /\ shown' \in State
  <2>1. CASE UserStep
    <3>1. /\ clicks < MaxClicks /\ clicks' = clicks + 1
          /\ UNCHANGED <<events, slots, reader, health, news, shown, muted>>
          /\ click' = click \/ click' = intent + 1
          /\ gui' = gui \/ gui' \in {"start", "cancel", "drain"}
      BY <2>1 DEF UserStep, ClickStart, ClickStop, ClickTest, ClickApply, ClickClose, UserMay,
        Click, NextIntent
    <3> QED
      BY <1>1, <3>1, SessionAssumption DEF TypeOK
  <2>2. CASE GuiStep /\ ~Deliver
    BY <1>1, <2>2 DEF GuiStep, PostStart, StopCancel, PostStop, DrainCommands, ShutdownTest,
      ShutdownCancel, ShutdownPut, TypeOK
  <2>3. CASE Deliver
    <3>1. shown' \in State /\ news' \in Seq(State)
      BY <1>1, <2>3, HeadTailProperties DEF Deliver, TypeOK
    <3> QED
      BY <1>1, <2>3, <3>1 DEF Deliver, TypeOK
  <2>4. CASE Reader
    BY <1>1, <2>4 DEF Reader, ReaderPost, ReaderStop, ReaderEnd, ReaderOnly, TypeOK
  <2>5. CASE Surprise
    <3>1. /\ events < MaxEvents /\ events' = events + 1
          /\ UNCHANGED <<gui, click, muted, clicks, news, shown>>
          /\ slots' = slots \/ (slots < SlotLimit /\ slots' = slots + 1)
      BY <2>5 DEF Surprise, ReaderComment, ReaderConnection, ReaderFail, PipelineGivesUp,
        EngineChange, ReaderOnly, Event, SlotFree
    <3>2. /\ reader' = reader \/ \E p \in {"post", "end"} : reader' = [reader EXCEPT !.pc = p]
          /\ health' = health \/ health' \in {"ready", "busy", "error"}
      BY <2>5 DEF Surprise, ReaderComment, ReaderConnection, ReaderFail, PipelineGivesUp,
        EngineChange, ReaderOnly
    <3>3. /\ reader' \in [token : Nat, pc : {"live", "post", "end", "gone"}]
          /\ health' \in {"ready", "busy", "error"}
      BY <1>1, <3>2 DEF TypeOK
    <3> QED
      BY <1>1, <3>1, <3>3, SessionAssumption DEF TypeOK
  <2> QED
    BY <2>1, <2>2, <2>3, <2>4, <2>5 DEF Outside
<1>5. intent' \in Nat /\ closing' \in BOOLEAN /\ pipeline' \in [token : Nat, accepting : BOOLEAN]
  <2>1. intent' \in Nat /\ pipeline' \in [token : Nat, accepting : BOOLEAN]
    <3>1. intent \in Nat /\ pipeline \in [token : Nat, accepting : BOOLEAN]
      BY <1>1 DEF TypeOK
    <3>2. /\ pipeline' = pipeline \/ pipeline' = [pipeline EXCEPT !.accepting = FALSE]
          /\ intent' = intent \/ intent' = intent + 1
      BY <1>2
    <3>3. ASSUME pipeline' = [pipeline EXCEPT !.accepting = FALSE]
          PROVE  pipeline' \in [token : Nat, accepting : BOOLEAN]
      BY <3>1, <3>3
    <3> QED
      BY <3>1, <3>2, <3>3
  <2>2. closing \in BOOLEAN
    BY <1>1 DEF TypeOK
  <2>3. closing' \in BOOLEAN
    BY <1>2, <2>2
  <2> QED
    BY <2>1, <2>3
<1> QED
  BY <1>1, <1>2, <1>3, <1>4, <1>5 DEF TypeOK

\* What the GUI, the source and the engine do keeps the invariant.
LEMMA OutsideStep ==
  ASSUME SInv, Outside
  PROVE  SInv'
BY OutsideFlow, OutsideTokens, OutsideCloses, OutsideSlots, OutsideSubmits, OutsideTypes DEF SInv

-----------------------------------------------------------------------------
(***************************************************************************)
(* What control leaves alone.                                              *)
(***************************************************************************)

Taking ==
  \/ TakeStart \/ TakeStop \/ TakeTest \/ TakeComment \/ TakeConnection
  \/ TakeFailed \/ TakeClosed \/ TakeEngine \/ TakeApply \/ TakeShutdown

Working ==
  \/ CloseSource \/ JoinSource \/ DropPipeline \/ CloseEngine \/ IsCurrent \/ MayFail
  \/ BeginPrepare \/ CheckPrepared \/ CreatePipeline \/ OpenSource \/ Announce
  \/ ChangeConnection \/ CancelBroken \/ Renew \/ Receive \/ Submit \/ ReleaseSlot \/ Finish

\* To take a command is to take one of some kind.
LEMMA TakingFrame ==
  ASSUME Taking
  PROVE  \E kind \in Kind : Takes(kind) /\ (kind = "comment" => TakeComment)
BY DEF Taking, Kind, TakeStart, TakeStop, TakeTest, TakeComment, TakeConnection, TakeFailed,
  TakeClosed, TakeEngine, TakeApply, TakeShutdown

\* What an exception does to the command under way.
LEMMA RaiseFrame ==
  ASSUME SInv, Raise
  PROVE  cmd' \in CommandType /\ (cmd'.kind = cmd.kind \/ cmd'.kind = "recovery")
<1>1. cmd \in CommandType
  BY FlowTypes
<1>2. cmd' = cmd \/ cmd' = Command("recovery", 0)
  BY DEF Raise, Go
<1>3. Command("recovery", 0) \in CommandType /\ Command("recovery", 0).kind = "recovery"
  BY DEF Command, CommandType, Kind
<1> QED
  BY <1>1, <1>2, <1>3

\* A step of a script leaves the queue, the GUI and the outside alone.
LEMMA WorkingFrame ==
  ASSUME SInv, Working
  PROVE  /\ todo # <<>>
         /\ UNCHANGED <<commands, muted, desk, outside>> /\ closing' = closing
         /\ intent' \in Nat
         /\ cmd' \in CommandType /\ (cmd'.kind = cmd.kind \/ cmd'.kind = "recovery")
         /\ (completed' = completed \/ Finish)
         /\ (slots' = slots \/ ReleaseSlot)
         /\ (spoken' = spoken \/ Submit)
         /\ (reader' = reader \/ OpenSource)
<1> USE DEF runtime, status, lock, rest, Threads
<1>1. cmd \in CommandType /\ intent \in Nat /\ session \in Nat
  BY FlowTypes
<1>2. todo # <<>>
  BY DEF Working, At, CloseSource, JoinSource, DropPipeline, CloseEngine, IsCurrent, MayFail,
    BeginPrepare, CheckPrepared, CreatePipeline, OpenSource, Announce, ChangeConnection,
    CancelBroken, Renew, Receive, Submit, ReleaseSlot, Finish
<1>3. UNCHANGED <<commands, muted, desk, outside>> /\ closing' = closing
  BY DEF Working, CloseSource, JoinSource, DropPipeline, CloseEngine, IsCurrent, MayFail,
    BeginPrepare, CheckPrepared, CreatePipeline, OpenSource, Announce, ChangeConnection,
    CancelBroken, Renew, Receive, Submit, ReleaseSlot, Finish
<1>4. intent' \in Nat
  BY <1>1 DEF Working, CloseSource, JoinSource, DropPipeline, CloseEngine, IsCurrent, MayFail,
    BeginPrepare, CheckPrepared, CreatePipeline, OpenSource, Announce, ChangeConnection,
    CancelBroken, Renew, Receive, Submit, ReleaseSlot, Finish
<1>5. /\ (completed' = completed \/ Finish) /\ (slots' = slots \/ ReleaseSlot)
      /\ (spoken' = spoken \/ Submit) /\ (reader' = reader \/ OpenSource)
  BY DEF Working, CloseSource, JoinSource, DropPipeline, CloseEngine, IsCurrent, MayFail,
    BeginPrepare, CheckPrepared, CreatePipeline, OpenSource, Announce, ChangeConnection,
    CancelBroken, Renew, Receive, Submit, ReleaseSlot, Finish
<1>6. cmd' \in CommandType /\ (cmd'.kind = cmd.kind \/ cmd'.kind = "recovery")
  <2>1. CASE Receive \/ Renew
    <3>1. PICK t \in Nat : cmd' = [cmd EXCEPT !.token = t]
      <4>1. intent + 1 \in Nat /\ cmd.token \in Nat
        BY <1>1 DEF CommandType
      <4> QED
        BY <1>1, <2>1, <4>1 DEF Receive, Renew
    <3> QED
      BY <1>1, <3>1 DEF CommandType
  <2>2. CASE CloseEngine \/ MayFail
    BY <1>1, <2>2, RaiseFrame DEF CloseEngine, MayFail, Go
  <2>3. CASE ~(Receive \/ Renew \/ CloseEngine \/ MayFail)
    BY <1>1, <2>3 DEF Working, Go, GoIf, CloseSource, JoinSource, DropPipeline, IsCurrent,
      BeginPrepare, CheckPrepared, CreatePipeline, OpenSource, Announce, ChangeConnection,
      CancelBroken, Submit, ReleaseSlot, Finish
  <2> QED
    BY <2>1, <2>2, <2>3
<1> QED
  BY <1>2, <1>3, <1>4, <1>5, <1>6

\* What the control thread does keeps the types.
LEMMA ControlTypes ==
  ASSUME SInv, Control
  PROVE  TypeOK'
<1> USE DEF runtime, status, lock, desk, outside, rest
<1>1. TypeOK /\ cmd.token \in Nat /\ Flow' /\ Slots
  BY FlowTypes, ControlFlow DEF SInv
<1>2. todo' \in Seq(Step)
  BY <1>1 DEF Flow, Script, Linked
<1>3. CASE Taking
  <2>1. PICK kind \in Kind : Takes(kind)
    BY <1>3, TakingFrame
  <2>2. /\ commands' \in Seq(CommandType) /\ cmd' \in CommandType
        /\ UNCHANGED <<intent, closing, runtime, status, desk, outside, rest>>
    BY <2>1, Taken
  <2> QED
    BY <1>1, <1>2, <2>2 DEF TypeOK
<1>4. CASE Working
  <2>1. /\ UNCHANGED <<commands, muted, desk, outside>> /\ closing' = closing
        /\ intent' \in Nat /\ cmd' \in CommandType
        /\ (completed' = completed \/ Finish) /\ (slots' = slots \/ ReleaseSlot)
        /\ (spoken' = spoken \/ Submit) /\ (reader' = reader \/ OpenSource)
    BY <1>4, WorkingFrame
  <2>2. completed' \in BOOLEAN
    BY <1>1, <2>1 DEF Finish, TypeOK
  <2>3. slots' \in 0..SlotLimit
    <3>1. slots \in 0..SlotLimit
      BY <1>1 DEF TypeOK
    <3>2. CASE ReleaseSlot
      <4>1. slots' = slots - 1 /\ Has("release")
        BY <3>2, FlowGo DEF ReleaseSlot, Go
      <4>2. Cardinality(Comments(commands)) \in Nat
        <5>1. Command("none", 0) \in CommandType /\ commands \in Seq(CommandType)
          BY FlowTypes DEF Command, CommandType, Kind
        <5> QED
          BY <5>1, CommentsAppended
      <4>3. slots >= 1
        BY <1>1, <3>1, <4>1, <4>2 DEF Slots, Owed
      <4> QED
        BY <3>1, <4>1, <4>3, SessionAssumption
    <3> QED
      BY <2>1, <3>1, <3>2
  <2>4. spoken' \subseteq Nat \X Nat
    <3>1. pipeline.token \in Nat /\ spoken \subseteq Nat \X Nat
      BY <1>1 DEF TypeOK
    <3>2. ASSUME Submit PROVE spoken' \subseteq Nat \X Nat
      BY <1>1, <3>1, <3>2 DEF Submit
    <3> QED
      BY <2>1, <3>1, <3>2
  <2>5. reader' \in [token : Nat, pc : {"live", "post", "end", "gone"}]
    BY <1>1, <2>1 DEF OpenSource, TypeOK
  <2>6. pipeline' \in [token : Nat, accepting : BOOLEAN]
    <3>1. pipeline \in [token : Nat, accepting : BOOLEAN]
      BY <1>1 DEF TypeOK
    <3>2. \/ pipeline' = pipeline \/ pipeline' = NoPipeline
          \/ pipeline' = [token |-> cmd.token, accepting |-> TRUE]
          \/ pipeline' = [pipeline EXCEPT !.accepting = FALSE]
      BY <1>4 DEF Working, CloseSource, JoinSource, DropPipeline, CloseEngine, IsCurrent, MayFail,
        BeginPrepare, CheckPrepared, CreatePipeline, OpenSource, Announce, ChangeConnection,
        CancelBroken, Renew, Receive, Submit, ReleaseSlot, Finish, CancelPipeline
    <3>3. ASSUME pipeline' = [pipeline EXCEPT !.accepting = FALSE]
          PROVE  pipeline' \in [token : Nat, accepting : BOOLEAN]
      BY <3>1, <3>3
    <3>4. NoPipeline \in [token : Nat, accepting : BOOLEAN]
      BY DEF NoPipeline
    <3>5. [token |-> cmd.token, accepting |-> TRUE] \in [token : Nat, accepting : BOOLEAN]
      BY <1>1
    <3> QED
      BY <3>1, <3>2, <3>3, <3>4, <3>5
  <2>7. session' \in Nat /\ source' \in Nat /\ engine' \in BOOLEAN /\ connected' \in BOOLEAN
    <3>1. session \in Nat /\ source \in Nat /\ engine \in BOOLEAN /\ connected \in BOOLEAN
      BY <1>1 DEF TypeOK
    <3>2. /\ session' = session \/ session' = cmd.token
          /\ source' = source \/ source' = 0 \/ source' = cmd.token
      BY <1>4 DEF Working, CloseSource, JoinSource, DropPipeline, CloseEngine, IsCurrent, MayFail,
        BeginPrepare, CheckPrepared, CreatePipeline, OpenSource, Announce, ChangeConnection,
        CancelBroken, Renew, Receive, Submit, ReleaseSlot, Finish
    <3>3. engine' \in BOOLEAN
      BY <1>4, <3>1 DEF Working, CloseSource, JoinSource, DropPipeline, CloseEngine, IsCurrent,
        MayFail, BeginPrepare, CheckPrepared, CreatePipeline, OpenSource, Announce,
        ChangeConnection, CancelBroken, Renew, Receive, Submit, ReleaseSlot, Finish
    <3>4. connected' \in BOOLEAN
      BY <1>4, <3>1 DEF Working, CloseSource, JoinSource, DropPipeline, CloseEngine, IsCurrent,
        MayFail, BeginPrepare, CheckPrepared, CreatePipeline, OpenSource, Announce,
        ChangeConnection, CancelBroken, Renew, Receive, Submit, ReleaseSlot, Finish
    <3> QED
      BY <1>1, <3>1, <3>2, <3>3, <3>4
  <2>8. state' \in State /\ news' \in Seq(State)
    <3>1. state \in State /\ news \in Seq(State)
      BY <1>1 DEF TypeOK
    <3>2. (state' = state /\ news' = news) \/ \E s \in State : state' = s /\ news' = Append(news, s)
      BY <1>4 DEF Working, CloseSource, JoinSource, DropPipeline, CloseEngine, IsCurrent, MayFail,
        BeginPrepare, CheckPrepared, CreatePipeline, OpenSource, Announce, ChangeConnection,
        CancelBroken, Renew, Receive, Submit, ReleaseSlot, Finish, SetState, State
    <3> QED
      BY <3>1, <3>2, AppendProperties
  <2>9. health' = health /\ gui' = gui /\ click' = click /\ shown' = shown /\ clicks' = clicks
        /\ events' = events /\ commands' = commands /\ muted' = muted
    BY <2>1
  <2> QED
    BY <1>1, <1>2, <2>1, <2>2, <2>3, <2>4, <2>5, <2>6, <2>7, <2>8, <2>9 DEF TypeOK
<1> QED
  BY <1>3, <1>4 DEF Control, Taking, Working

\* Only the command that closes the program is left to take, and it is the last.
LEMMA ControlCloses ==
  ASSUME SInv, Control
  PROVE  Closes'
<1> USE DEF runtime, status, lock, desk, outside, rest
<1>1. Closes /\ TypeOK /\ Flow
  BY FlowTypes DEF SInv
<1>2. CASE Taking
  <2>1. PICK kind \in Kind : Takes(kind)
    BY <1>2, TakingFrame
  <2>2. /\ todo = <<>> /\ commands # <<>> /\ 1 \in DOMAIN commands /\ cmd' = commands[1]
        /\ Len(commands) \in Nat \ {0} /\ Len(commands') = Len(commands) - 1
        /\ commands' \in Seq(CommandType) /\ DOMAIN commands' = 1..Len(commands) - 1
        /\ \A i \in DOMAIN commands' : i + 1 \in DOMAIN commands /\ commands'[i] = commands[i + 1]
        /\ UNCHANGED <<gui, completed>> /\ closing' = closing
    <3>1. UNCHANGED <<intent, closing, runtime, status, desk, outside, rest>>
      BY <2>1, Taken
    <3> QED
      BY <2>1, <3>1, Taken
  <2>3. gui \notin {"test", "cancelNow", "put", "broken"} /\ completed = FALSE
    BY <1>1, <2>2 DEF Closes, TypeOK
  <2>4. gui = "closed" => commands' = <<>>
    <3>1. gui = "closed" => Len(commands') = 0
      BY <1>1, <2>2 DEF Closes
    <3> QED
      BY <2>2, <3>1, EmptySeq
  <2>5. \A i \in DOMAIN commands' : commands'[i].kind = "shutdown" => gui = "closed"
    BY <1>1, <2>2 DEF Closes
  <2>6. cmd'.kind = "shutdown" => gui = "closed"
    BY <1>1, <2>2 DEF Closes
  <2> QED
    BY <1>1, <2>2, <2>3, <2>4, <2>5, <2>6 DEF Closes
<1>3. CASE Working
  <2>1. /\ todo # <<>> /\ UNCHANGED <<commands, gui>> /\ closing' = closing
        /\ cmd'.kind = cmd.kind \/ cmd'.kind = "recovery"
        /\ (completed' = completed \/ Finish)
    BY <1>3, WorkingFrame
  <2>2. completed = FALSE
    BY <1>1, <2>1 DEF Closes, TypeOK
  <2>3. CASE Finish
    <3>1. /\ At("finish") /\ Go /\ completed' = TRUE
          /\ UNCHANGED <<source, pipeline, engine, reader, commands, gui>>
      BY <2>3 DEF Finish, Threads
    <3>2. /\ Point = "finish" /\ Has("finish") /\ Leads("finish", Point')
          /\ Point' = "rest" => todo' = <<>>
      BY <3>1, FlowGo DEF Go
    <3>3. todo' = <<>> /\ cmd' = cmd
      BY <3>1, <3>2 DEF Leads, Go
    <3>4. cmd.kind = "shutdown" /\ NothingRuns
      BY <1>1, <3>2 DEF Flow, Script, Pipelines, Sources, Held, NothingRuns
    <3>5. NothingRuns'
      BY <3>1, <3>4 DEF NothingRuns
    <3> QED
      BY <1>1, <2>1, <3>1, <3>3, <3>4, <3>5 DEF Closes
  <2>4. CASE completed' = FALSE
    BY <1>1, <2>1, <2>4 DEF Closes
  <2> QED
    BY <2>1, <2>2, <2>3, <2>4
<1> QED
  BY <1>2, <1>3 DEF Control, Taking, Working

\* A slot is given back once, when its comment was handled.
LEMMA ControlSlots ==
  ASSUME SInv, Control
  PROVE  Slots'
<1> USE DEF runtime, status, lock, desk, outside, rest
<1>1. /\ Slots /\ Script /\ Sources /\ commands \in Seq(CommandType) /\ slots \in Nat
      /\ closing \in BOOLEAN
      /\ reader \in [token : Nat, pc : {"live", "post", "end", "gone"}]
  BY FlowTypes DEF SInv, Flow, TypeOK
<1>2. Script' /\ todo' \in Seq(Step)
  BY ControlFlow DEF Flow, Script, Linked
<1> DEFINE Posting == IF reader.pc = "post" THEN 1 ELSE 0
           Waiting == Cardinality(Comments(commands))
           Handled == IF Has("release") THEN 1 ELSE 0
<1>3. Waiting \in Nat
  <2>1. Command("none", 0) \in CommandType
    BY DEF Command, CommandType, Kind
  <2> QED
    BY <1>1, <2>1, CommentsAppended
<1>4. /\ Owed = Posting + Waiting + Handled /\ Owed' = Posting' + Waiting' + Handled'
      /\ Posting \in 0..1 /\ Handled \in 0..1 /\ Handled' \in 0..1
  BY DEF Owed
<1>5. /\ Posting + Waiting + Handled <= slots
      /\ ~closing => slots = Posting + Waiting + Handled
  BY <1>1, <1>4 DEF Slots
<1>6. CASE Taking
  <2>1. PICK kind \in Kind : Takes(kind) /\ (kind = "comment" => TakeComment)
    BY <1>6, TakingFrame
  <2>2. /\ StepsOf(todo) = {} /\ commands # <<>> /\ commands' = Tail(commands)
        /\ cmd' = commands[1] /\ cmd'.kind = kind
        /\ UNCHANGED <<slots, reader>> /\ closing' = closing
    <3>1. UNCHANGED <<intent, closing, runtime, status, desk, outside, rest>>
      BY <2>1, Taken
    <3> QED
      BY <2>1, <3>1, Taken
  <2>3. Waiting = Waiting' + (IF kind = "comment" THEN 1 ELSE 0) /\ Waiting' \in Nat
    BY <1>1, <2>2, CommentsTaken
  <2>4. Handled = 0
    BY <2>2 DEF Has
  <2>5. Handled' = IF kind = "comment" THEN 1 ELSE 0
    <3>1. CASE kind = "comment"
      <4>1. todo' = <<"receive", "submit", "release">>
        BY <2>1, <3>1 DEF TakeComment
      <4>2. StepsOf(todo') = {"receive", "submit", "release"}
        BY <4>1, ShortScripts, Beginning
      <4> QED
        BY <3>1, <4>2 DEF Has
    <3>2. CASE kind # "comment"
      BY <1>2, <2>2, <3>2 DEF Script
    <3> QED
      BY <3>1, <3>2
  <2>6. Posting' = Posting
    BY <2>2
  <2> HIDE DEF Posting, Waiting, Handled
  <2> QED
    BY <1>3, <1>4, <1>5, <2>2, <2>3, <2>4, <2>5, <2>6 DEF Slots
<1>7. CASE Working
  <2>1. /\ todo # <<>> /\ commands' = commands /\ closing' = closing
        /\ (slots' = slots \/ ReleaseSlot) /\ (reader' = reader \/ OpenSource)
    BY <1>7, WorkingFrame
  <2>2. Waiting' = Waiting
    BY <2>1
  <2>3. Posting' = Posting
    <3>1. CASE OpenSource
      <4>1. Point = "open" /\ reader'.pc = "live"
        BY <3>1 DEF OpenSource, At, Point
      <4>2. reader.pc = "gone"
        BY <1>1, <4>1 DEF Sources
      <4> QED
        BY <4>1, <4>2
    <3> QED
      BY <2>1, <3>1
  <2>4. CASE ReleaseSlot
    <3>1. At("release") /\ Go /\ slots' = slots - 1
      BY <2>4 DEF ReleaseSlot
    <3>2. Has("release") /\ Leads("release", Point') /\ (Point' = "rest" => StepsOf(todo') = {})
      BY <3>1, FlowGo DEF Go
    <3>3. ~Has("release")'
      BY <3>2 DEF Leads, Has
    <3>4. Handled = 1 /\ Handled' = 0
      BY <3>2, <3>3
    <3> HIDE DEF Posting, Waiting, Handled
    <3> QED
      BY <1>1, <1>3, <1>4, <1>5, <2>1, <2>2, <2>3, <3>1, <3>4 DEF Slots
  <2>5. CASE ~ReleaseSlot
    <3>1. Has("release")' <=> Has("release")
      <4>1. CASE Receive
        <5>1. PICK x \in {"receive", "receiveTest"} : At(x)
          BY <4>1 DEF Receive
        <5>2. todo' = Tail(todo) \/ todo' = Tail(Tail(todo))
          BY <4>1 DEF Receive, SkipSubmit
        <5>3. Linked(todo, "rest") /\ Head(todo) = x
          BY <1>1, <5>1 DEF Script, At
        <5> DEFINE r == Tail(todo)
        <5>4. /\ Linked(r, "rest") /\ StepsOf(todo) = {x} \cup StepsOf(r)
              /\ Leads(x, IF r = <<>> THEN "rest" ELSE Head(r))
          BY <2>1, <5>3, Rest DEF Linked
        <5>5. r # <<>> /\ Head(r) = "submit"
          BY <5>1, <5>4 DEF Leads
        <5> HIDE DEF r
        <5>6. StepsOf(r) = {"submit"} \cup StepsOf(Tail(r))
          BY <5>4, <5>5, Rest DEF Linked
        <5>7. todo' = r \/ todo' = Tail(r)
          BY <5>2 DEF r
        <5> QED
          BY <5>1, <5>4, <5>6, <5>7 DEF Has
      <4>2. CASE Submit
        <5>1. At("submit") /\ todo' = Tail(todo) /\ Head(todo) = "submit" /\ Linked(todo, "rest")
          BY <1>1, <4>2 DEF Submit, Go, At, Script
        <5>2. StepsOf(todo) = {"submit"} \cup StepsOf(todo')
          BY <2>1, <5>1, Rest DEF Linked
        <5> QED
          BY <5>2 DEF Has
      <4>3. CASE ~Receive /\ ~Submit
        <5>1. Point \notin {"receive", "submit", "release"}
          BY <1>7, <2>5, <4>3 DEF Working, At, Point, CloseSource, JoinSource, DropPipeline,
            CloseEngine, IsCurrent, MayFail, BeginPrepare, CheckPrepared, CreatePipeline,
            OpenSource, Announce, ChangeConnection, CancelBroken, Renew, Finish
        <5>2. ~Has("release")
          BY <1>1, <5>1 DEF Script
        <5>3. Has("release")' => Has("release")
          <6>1. CASE todo' = Tail(todo)
            <7>1. StepsOf(todo) = {Head(todo)} \cup StepsOf(todo')
              BY <1>1, <2>1, <6>1, Rest DEF Script, Linked
            <7> QED
              BY <7>1 DEF Has
          <6>2. CASE todo' = <<>>
            BY <6>2, Resuming DEF Has
          <6>3. ASSUME NEW a \in {"idle", "error"}, todo' = Dispose \o <<a>>
                PROVE  ~Has("release")'
            <7>1. StepsOf(todo') = DisposeSteps \cup {a}
              BY <6>3, DisposeThen, Beginning
            <7> QED
              BY <7>1 DEF Has, DisposeSteps
          <6>4. \/ todo' = Tail(todo) \/ todo' = <<>>
                \/ todo' = Dispose \o <<"error">> \/ todo' = Dispose \o <<"idle">>
            BY <1>7, <2>5, <4>3 DEF Working, CloseSource, JoinSource, DropPipeline,
              CloseEngine, IsCurrent, MayFail, BeginPrepare, CheckPrepared, CreatePipeline,
              OpenSource, Announce, ChangeConnection, CancelBroken, Renew, Finish, Go, GoIf,
              Raise, Abandon
          <6> QED
            BY <6>1, <6>2, <6>3, <6>4
        <5> QED
          BY <5>2, <5>3
      <4> QED
        BY <4>1, <4>2, <4>3
    <3>2. Handled' = Handled
      BY <3>1
    <3> HIDE DEF Posting, Waiting, Handled
    <3> QED
      BY <1>1, <1>3, <1>4, <1>5, <2>1, <2>2, <2>3, <2>5, <3>2 DEF Slots
  <2> QED
    BY <2>4, <2>5
<1> QED
  BY <1>6, <1>7 DEF Control, Taking, Working

\* Only a comment, or a test, that was received is submitted.
LEMMA WorkingPoint ==
  ASSUME SInv, Working, ~Submit, ~Receive
  PROVE  Point' # "submit"
<1>1. CASE ReleaseSlot
  <2>1. Leads("release", Point')
    BY <1>1, FlowGo DEF ReleaseSlot, Go
  <2> QED
    BY <2>1 DEF Leads
<1>2. CASE ~ReleaseSlot
  <2>1. todo # <<>> /\ Point \notin {"receive", "receiveTest", "submit"}
    BY <1>2, WorkingFrame DEF Working, At, Point, CloseSource, JoinSource, DropPipeline,
      CloseEngine, IsCurrent, MayFail, BeginPrepare, CheckPrepared, CreatePipeline,
      OpenSource, Announce, ChangeConnection, CancelBroken, Renew, Finish
  <2>2. CASE todo' = Tail(todo)
    <3>1. Leads(Point, Point')
      BY <2>1, <2>2, Going, FlowTypes DEF Flow
    <3> QED
      BY <2>1, <3>1 DEF Leads
  <2>3. CASE todo' = <<>>
    BY <2>3, Resuming
  <2>4. ASSUME NEW a \in {"idle", "error"}, todo' = Dispose \o <<a>>
        PROVE  Point' # "submit"
    <3>1. Point' = "source"
      BY <2>4, DisposeThen, Beginning
    <3> QED
      BY <3>1
  <2>5. \/ todo' = Tail(todo) \/ todo' = <<>>
        \/ todo' = Dispose \o <<"error">> \/ todo' = Dispose \o <<"idle">>
    BY <1>2 DEF Working, CloseSource, JoinSource, DropPipeline,
      CloseEngine, IsCurrent, MayFail, BeginPrepare, CheckPrepared, CreatePipeline,
      OpenSource, Announce, ChangeConnection, CancelBroken, Renew, Finish, Go, GoIf,
      Raise, Abandon
  <2> QED
    BY <2>2, <2>3, <2>4, <2>5
<1> QED
  BY <1>1, <1>2

\* What passes the test of its token is spoken by its own session's pipeline.
LEMMA ControlSubmits ==
  ASSUME SInv, Control
  PROVE  Submits'
<1> USE DEF runtime, status, lock, desk, outside, rest
<1>1. /\ Submits /\ Tokens /\ Pipelines /\ intent \in Nat /\ muted \in Nat /\ click \in Nat
      /\ Script /\ todo \in Seq(Step)
  BY FlowTypes DEF SInv, Flow
<1>2. Flow' /\ todo' \in Seq(Step)
  BY ControlFlow DEF Flow, Script, Linked
<1>3. CASE Submit
  <2>1. /\ At("submit") /\ Go
        /\ UNCHANGED <<muted, gui, click, pipeline>>
        /\ spoken' = IF pipeline.accepting THEN spoken \cup {<<cmd.token, pipeline.token>>}
                     ELSE spoken
    BY <1>3 DEF Submit, Threads
  <2>2. Point = "submit" /\ Leads("submit", Point')
    BY <2>1, FlowGo DEF Go
  <2>3. Point' # "submit"
    BY <2>2 DEF Leads
  <2>4. pipeline.accepting => cmd.token = pipeline.token
    BY <1>1, <2>2 DEF Tokens, Pipelines, NoPipeline
  <2>5. SpokenBySameSession'
    BY <1>1, <2>1, <2>4 DEF Submits, SpokenBySameSession
  <2> QED
    BY <2>3, <2>5 DEF Submits
<1>4. CASE Receive
  <2>1. UNCHANGED <<muted, gui, click, pipeline, spoken, intent>>
    BY <1>4 DEF Receive, Threads
  <2>2. Point' = "submit" => cmd'.token = intent
    <3> DEFINE token == IF At("receive") THEN cmd.token ELSE session
    <3>1. /\ cmd' = [cmd EXCEPT !.token = token] /\ cmd \in CommandType
          /\ todo' = IF Valid(token) THEN Tail(todo) ELSE SkipSubmit
      BY <1>4, FlowTypes DEF Receive
    <3>2. cmd'.token = token
      BY <3>1 DEF CommandType
    <3> HIDE DEF token
    <3>3. CASE Valid(token)
      BY <3>2, <3>3 DEF Valid, Current
    <3>4. CASE ~Valid(token)
      <4>1. PICK x \in {"receive", "receiveTest"} : At(x)
        BY <1>4 DEF Receive
      <4> DEFINE r == Tail(todo)
      <4>2. /\ Linked(r, "rest") /\ Leads(x, IF r = <<>> THEN "rest" ELSE Head(r))
        BY <1>1, <4>1, Rest DEF Script, At
      <4>3. r # <<>> /\ Head(r) = "submit" /\ todo' = Tail(r)
        BY <3>1, <3>4, <4>1, <4>2 DEF Leads, SkipSubmit
      <4> HIDE DEF r
      <4>4. Leads("submit", IF Tail(r) = <<>> THEN "rest" ELSE Head(Tail(r)))
        BY <4>2, <4>3, Rest DEF Linked
      <4> QED
        BY <4>3, <4>4 DEF Leads, Point
    <3> QED
      BY <3>3, <3>4
  <2> QED
    BY <1>1, <2>1, <2>2 DEF Submits, Tokens, SpokenBySameSession
<1>5. CASE ~Submit /\ ~Receive
  <2>1. spoken' = spoken
    <3>1. CASE Taking
      <4>1. PICK kind \in Kind : Takes(kind)
        BY <3>1, TakingFrame
      <4> QED
        BY <4>1, Taken
    <3>2. CASE Working
      BY <1>5, <3>2, WorkingFrame
    <3> QED
      BY <3>1, <3>2 DEF Control, Taking, Working
  <2>2. Point' # "submit"
    <3>1. CASE Taking
      BY <3>1, TakeFlow, TakeMoreFlow DEF Taking
    <3>2. CASE Working
      BY <1>5, <3>2, WorkingPoint
    <3> QED
      BY <3>1, <3>2 DEF Control, Taking, Working
  <2> QED
    BY <1>1, <2>1, <2>2 DEF Submits, SpokenBySameSession
<1> QED
  BY <1>3, <1>4, <1>5

\* What the control thread does keeps the invariant.
LEMMA ControlStep ==
  ASSUME SInv, Control
  PROVE  SInv'
BY ControlFlow, ControlTypes, ControlCloses, ControlSlots, ControlSubmits DEF SInv, Flow

-----------------------------------------------------------------------------
(***************************************************************************)
(* The invariant, and the properties of the service that follow from it.   *)
(***************************************************************************)

\* It holds before the first click.
LEMMA InitSInv == Init => SInv
<1> SUFFICES ASSUME Init PROVE SInv
  OBVIOUS
<1>1. Point = "rest" /\ StepsOf(todo) = {} /\ Linked(todo, "rest")
  BY DEF Init, Point, StepsOf, Linked
<1>2. TypeOK
  <2>1. cmd \in CommandType /\ commands \in Seq(CommandType) /\ todo \in Seq(Step)
    BY DEF Init, Command, CommandType, Kind
  <2>2. state \in State /\ shown \in State /\ news \in Seq(State)
    BY DEF Init, State
  <2>3. /\ pipeline \in [token : Nat, accepting : BOOLEAN]
        /\ reader \in [token : Nat, pc : {"live", "post", "end", "gone"}]
    BY DEF Init, NoPipeline, NoReader
  <2>4. slots \in 0..SlotLimit /\ clicks \in 0..MaxClicks /\ events \in 0..MaxEvents
    BY SessionAssumption DEF Init
  <2> QED
    BY <2>1, <2>2, <2>3, <2>4 DEF Init, TypeOK
<1>3. Script /\ Pipelines /\ Sources /\ Held /\ Quiet
  BY <1>1 DEF Init, Script, Pipelines, Sources, Held, Quiet, Has, NoPipeline, NoReader,
    NothingRuns, Rebuilding, Command
<1>4. Tokens
  BY <1>1 DEF Init, Tokens, Command, NoReader
<1>5. Closes
  BY DEF Init, Closes, Command
<1>6. Slots
  <2>1. Cardinality(Comments(commands)) = 0
    BY NoComments DEF Init
  <2> QED
    BY <1>1, <2>1 DEF Init, Slots, Owed, Has, NoReader
<1>7. Submits
  BY <1>1 DEF Init, Submits, SpokenBySameSession
<1> QED
  BY <1>2, <1>3, <1>4, <1>5, <1>6, <1>7 DEF SInv

\* It needs nothing but the variables.
LEMMA StillSInv ==
  ASSUME SInv, UNCHANGED vars
  PROVE  SInv'
<1> USE DEF vars, runtime, status, control, lock, desk, outside, rest
<1>1. UNCHANGED <<Point, StepsOf(todo), NothingRuns>>
  BY DEF Point, StepsOf, NothingRuns
<1>2. TypeOK'
  BY DEF SInv, TypeOK
<1>3. Script' /\ Tokens'
  BY <1>1 DEF SInv, Script, Tokens, Has
<1>4. Pipelines' /\ Sources' /\ Held' /\ Quiet'
  BY <1>1 DEF SInv, Pipelines, Sources, Held, Quiet, Has
<1>5. Closes'
  BY <1>1 DEF SInv, Closes
<1>6. Slots' /\ Submits'
  BY <1>1 DEF SInv, Slots, Owed, Has, Submits, SpokenBySameSession
<1> QED
  BY <1>2, <1>3, <1>4, <1>5, <1>6 DEF SInv

\* Every step keeps the invariant.
LEMMA NextSInv == SInv /\ [Next]_vars => SInv'
BY OutsideStep, ControlStep, StillSInv DEF Next, Outside

\* The control flow graph and what is known at each of its steps hold in
\* every state of the service, whatever the users and the threads do
\* (core/session/service.py).
THEOREM SessionInvariance == Spec => []SInv
BY InitSInv, NextSInv, PTL DEF Spec

\* Every variable has its type; in particular the slots of the comments stay
\* between none and all of them (service.py:253-268).
THEOREM SessionTypes == Spec => []TypeOK
<1>1. SInv => TypeOK
  BY DEF SInv
<1> QED
  BY <1>1, SessionInvariance, PTL

\* Between two commands nothing runs while idle or error is shown, and a
\* source is served by the pipeline and the engine of its own session
\* (service.py:180-234 and 302-322).
THEOREM PartsOwned == Spec => []PartsAreOwned
<1>1. ASSUME SInv PROVE PartsAreOwned
  <2>1. Resting => Point = "rest"
    BY DEF Resting, Point
  <2>2. IdleMeansNothing
    BY <1>1 DEF SInv, Quiet, IdleMeansNothing
  <2>3. SourceIsServed
    BY <1>1, <2>1, AtRest DEF SourceIsServed
  <2> QED
    BY <2>2, <2>3 DEF PartsAreOwned
<1> QED
  BY <1>1, SessionInvariance, PTL

\* A comment is spoken by the pipeline of the session that read it, through
\* every stop, restart and rebuild in between (service.py:269-277).
THEOREM SpokenByItsSession == Spec => []SpokenBySameSession
<1>1. SInv => SpokenBySameSession
  BY DEF SInv, Submits
<1> QED
  BY <1>1, SessionInvariance, PTL

\* The slots taken are those of the comments being posted, waiting and being
\* handled: none is lost and none is given back twice (service.py:253-268).
THEOREM SlotsAreConserved == Spec => []SlotsConserved
<1>1. ASSUME SInv, ~closing
      PROVE  slots = (IF reader.pc = "post" THEN 1 ELSE 0)
                     + Cardinality({i \in DOMAIN commands : commands[i].kind = "comment"})
                     + Cardinality({i \in DOMAIN todo : todo[i] = "release"})
  <2> DEFINE n == Len(todo)
             R == {i \in DOMAIN todo : todo[i] = "release"}
  <2>1. todo \in Seq(Step) /\ n \in Nat /\ DOMAIN todo = 1..n
        /\ \A i \in 1..n : todo[i] \in Step
    BY <1>1, FlowTypes, LenProperties, ElementOfSeq
  <2>2. \A i \in 1..n : Leads(todo[i], IF i < n THEN todo[i + 1] ELSE "rest")
    BY <1>1 DEF SInv, Script, Linked
  <2>3. ASSUME NEW i \in R PROVE i = n
    <3>1. i \in 1..n /\ todo[i] = "release"
      BY <2>1
    <3>2. i < n => i + 1 \in 1..n
      BY <2>1, <3>1
    <3>3. i < n => todo[i + 1] = "rest" /\ todo[i + 1] \in Step
      BY <2>1, <2>2, <3>1, <3>2 DEF Leads
    <3> QED
      BY <2>1, <3>1, <3>3 DEF Step, State
  <2>4. Has("release") <=> R # {}
    BY <2>1 DEF Has, StepsOf
  <2>5. R = {} \/ R = {n}
    BY <2>3
  <2>6. Cardinality(R) = IF Has("release") THEN 1 ELSE 0
    <3> HIDE DEF R, n
    <3> QED
      BY <2>4, <2>5, FS_EmptySet, FS_Singleton
  <2> QED
    BY <1>1, <2>6 DEF SInv, Slots, Owed, Comments
<1>2. SInv => SlotsConserved
  BY <1>1 DEF SlotsConserved
<1> QED
  BY <1>2, SessionInvariance, PTL

\* Once shutdown has emptied the queue nothing is opened behind the release
\* of everything (service.py:529-560).
THEOREM NothingFollows == Spec => []NothingAfterDrain
<1>1. ASSUME SInv PROVE NothingAfterDrain
  <2>1. /\ Closes /\ DOMAIN commands = 1..Len(commands)
        /\ \A i \in DOMAIN commands : i = 1 \/ Len(commands) # 1
    <3>1. DOMAIN commands = 1..Len(commands) /\ Len(commands) \in Nat
      BY <1>1, FlowTypes, Queued
    <3> QED
      BY <1>1, <3>1 DEF SInv
  <2>2. gui \in {"test", "cancelNow", "put", "closed", "broken"} =>
          \A i \in DOMAIN commands : commands[i].kind = "shutdown"
    BY <2>1 DEF Closes
  <2> QED
    BY <2>1, <2>2 DEF Closes, NothingAfterDrain
<1> QED
  BY <1>1, SessionInvariance, PTL

\* After stop has returned, nothing of an earlier session is accepted for
\* speaking, not even by a command already under way (service.py:290-296).
THEOREM StopIsMute == Spec => StopMutes
<1>1. ASSUME SInv, [Next]_vars PROVE [\A s \in spoken' \ spoken : s[1] >= muted]_vars
  <2>1. CASE Outside
    BY <2>1, OutsideFrame
  <2>2. CASE Taking
    <3>1. PICK kind \in Kind : Takes(kind)
      BY <2>2, TakingFrame
    <3>2. spoken' = spoken
      BY <1>1, <3>1, Taken DEF rest
    <3> QED
      BY <3>2
  <2>3. CASE Working
    <3>1. CASE Submit
      <4>1. /\ Point = "submit"
            /\ spoken' = IF pipeline.accepting THEN spoken \cup {<<cmd.token, pipeline.token>>}
                         ELSE spoken
        BY <3>1 DEF Submit, At, Point
      <4>2. pipeline.accepting => cmd.token >= muted
        BY <1>1, <4>1, FlowTypes DEF SInv, Submits
      <4> QED
        BY <4>1, <4>2
    <3>2. CASE ~Submit
      BY <1>1, <2>3, <3>2, WorkingFrame
    <3> QED
      BY <3>1, <3>2
  <2>4. CASE UNCHANGED vars
    BY <2>4 DEF vars
  <2> QED
    BY <1>1, <2>1, <2>2, <2>3, <2>4 DEF Next, Outside, Control, Taking, Working
<1> QED
  BY <1>1, SessionInvariance, PTL DEF Spec, StopMutes

\* No source thread is started beside another one, and no engine is opened
\* while another one is held (service.py:180-234 and 302-322).
THEOREM OnlyOne == Spec => OneOfEach
<1>1. ASSUME SInv, [Next]_vars PROVE [reader'.token # reader.token => reader.pc = "gone"]_vars
  <2>1. CASE Outside
    <3>1. reader'.token = reader.token
      <4>1. reader \in [token : Nat, pc : {"live", "post", "end", "gone"}]
        BY <1>1, FlowTypes
      <4> QED
        BY <2>1, <4>1, OutsideFrame
    <3> QED
      BY <3>1
  <2>2. CASE Taking
    <3>1. PICK kind \in Kind : Takes(kind)
      BY <2>2, TakingFrame
    <3>2. reader' = reader
      BY <1>1, <3>1, Taken DEF runtime
    <3> QED
      BY <3>2
  <2>3. CASE Working
    <3>1. CASE OpenSource
      <4>1. Point = "open"
        BY <3>1 DEF OpenSource, At, Point
      <4> QED
        BY <1>1, <4>1 DEF SInv, Sources
    <3>2. CASE ~OpenSource
      BY <1>1, <2>3, <3>2, WorkingFrame
    <3> QED
      BY <3>1, <3>2
  <2>4. CASE UNCHANGED vars
    BY <2>4 DEF vars
  <2> QED
    BY <1>1, <2>1, <2>2, <2>3, <2>4 DEF Next, Outside, Control, Taking, Working
<1>2. ASSUME SInv, BeginPrepare PROVE ~engine \/ state = "starting"
  <2>1. Point = "prepare"
    BY <1>2 DEF BeginPrepare, At, Point
  <2> QED
    BY <1>2, <2>1 DEF SInv, Pipelines, Held
<1>3. Spec => OneReader
  BY <1>1, SessionInvariance, PTL DEF Spec, OneReader
<1>4. SInv /\ [Next]_vars => [BeginPrepare => ~engine \/ state = "starting"]_vars
  BY <1>2
<1>5. Spec => EnginesOwned
  BY <1>4, SessionInvariance, PTL DEF Spec, EnginesOwned
<1> QED
  BY <1>3, <1>5, PTL DEF OneOfEach
=============================================================================
