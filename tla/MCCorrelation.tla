--------------------------- MODULE MCCorrelation ----------------------------
(* Instances of the pipeline with its correlator for TLC.  One client asks two *)
(* questions under the same id and gets a response to both, one with the query *)
(* repeated; the frame of a third response cannot be read.                     *)
EXTENDS Correlation

CONSTANTS q1, q2, x, r1, r2, w1

Absent == [kind |-> "absent"]
Malformed == [kind |-> "malformed"]

EDNS(version) ==
  [type |-> "OPT", data |-> "opt", version |-> version, dnssecOK |-> version = 1,
   options |-> IF version = 1 THEN <<[code |-> "subnet", value |-> "net"],
                                     [code |-> "cookie", value |-> "c"]>>
               ELSE <<[code |-> "nsid", value |-> "n"]>>]

\* A message with id 7, where opts are the versions of its OPT records.
Wire(flags, rcode, questions, opts) ==
  [kind |-> "dns", id |-> 7, flags |-> flags, rcode |-> rcode, questions |-> questions,
   records |-> [s \in Sections |->
                  IF s = "ar" THEN [i \in DOMAIN opts |-> EDNS(opts[i])]
                  ELSE IF s = "an" /\ "QR" \in flags THEN <<[type |-> "A", data |-> "addr"]>>
                  ELSE <<>>]]

Tap(query, response, queryTime, responseTime) ==
  [ip |-> "client", query |-> query, response |-> response, queryTime |-> queryTime,
   responseTime |-> responseTime,
   extra |-> <<<<"policy-rule", "a">>, <<"note", "b">>, <<"policy-rule", "c">>>>]

Query(question) == Wire({"RD"}, "", <<question>>, <<1>>)
Answer(question) == Wire({"QR", "RD", "RA"}, "NOERROR", <<question>>, <<>>)

OneWorker == {w1}
MCEvents == {q1, q2, x, r1, r2}
MCMessage ==
  [e \in MCEvents |->
     CASE e = q1 -> Tap(Query("a"), Absent, 20, 0)
       [] e = q2 -> Tap(Query("b"), Absent, 20, 0)
       [] e = r1 -> Tap(Query("a"), Answer("a"), 20, 30)
       [] e = r2 -> Tap(Absent, Answer("b"), 0, 30)
       [] e = x -> Tap(Query("b"), Malformed, 20, 30)]
MCEvent == [e \in MCEvents |-> DecodeToEvent(MCMessage[e], 1)]

MCResponses == {e \in MCEvents : "QR" \in MCEvent[e].flags}
MCQueries == MCEvents \ MCResponses
MCKey == [e \in MCEvents |-> <<MCEvent[e].ip, MCEvent[e].id>>]
MCKeys == {MCKey[e] : e \in MCEvents}
MCAnswers == [r \in MCResponses |-> IF r = r1 THEN q1 ELSE q2]

MCMessages ==
  LET queries == {Absent, Malformed} \cup
        {Wire({"RD"}, "", q, o) : q \in {<<>>, <<"a">>}, o \in {<<>>, <<1>>, <<0, 1>>}}
      responses == {Absent, Malformed} \cup
        {Wire(f, "NOERROR", q, o) : f \in {{}, {"QR"}}, q \in {<<>>, <<"b">>},
                                    o \in {<<>>, <<0>>, <<1>>}}
  IN {Tap(q, r, at, then) : q \in queries, r \in responses, at \in {0, 20}, then \in {0, 10, 30}}
       \cup {MCMessage[e] : e \in MCEvents}

ASSUME MCLabelledTruly == LabelledTruly
=============================================================================
