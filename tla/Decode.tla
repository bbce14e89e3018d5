------------------------------- MODULE Decode --------------------------------
(***************************************************************************)
(* decodeToEvent of internal/adapter/inbound/dnstap/server.go: the event   *)
(* that the server makes of a DNSTAP message.                               *)
(*                                                                         *)
(* A message is a record: whom it is from (ip), when the query and the      *)
(* response were seen (queryTime, responseTime; 0 where the field is not    *)
(* set), the query and the response themselves, and the words of its extra  *)
(* field, as pairs of a key and a value.                                    *)
(* The query and the response are wire messages, of one of three kinds:     *)
(* "absent", "malformed", which dns.Msg.Unpack refuses, or "dns".  The last *)
(* has an id, the bits of its header, a rcode, the questions and three      *)
(* sections of resource records.                                           *)
(***************************************************************************)
EXTENDS Integers, Sequences, SequencesExt

Sections == {"an", "ns", "ar"}
PolicyKeys == {"peer-name", "policy-rule", "policy-type", "policy-match", "policy-value"}

\* new(DNSRawEvent)
Blank ==
  [ip |-> "", timestamp |-> 0, latency |-> 0, policy |-> [k \in PolicyKeys |-> ""],
   malformed |-> FALSE, id |-> 0, flags |-> {}, rcode |-> "", question |-> "",
   resource |-> [s \in Sections |-> <<>>],
   edns |-> [version |-> 0, dnssecOK |-> FALSE, subnet |-> "", options |-> <<>>]]

\* The time of the response if there is one, else that of the query, else now.  Only
\* a message with both times has a latency, which is negative if they are swapped.
TimesOf(m, now) ==
  [timestamp |-> IF m.responseTime > 0 THEN m.responseTime
                 ELSE IF m.queryTime > 0 THEN m.queryTime ELSE now,
   latency |-> IF m.responseTime > 0 /\ m.queryTime > 0
               THEN m.responseTime - m.queryTime ELSE 0]

\* The last word with a key counts, and unknown keys are skipped.
ParseExtra(words) ==
  [k \in PolicyKeys |->
     LET mine == SelectSeq(words, LAMBDA w : w[1] = k)
     IN IF mine = <<>> THEN "" ELSE Last(mine)[2]]

-----------------------------------------------------------------------------
\* d.IsEdns0(): the last OPT record of the additional section, none or one.
Opt(wire) ==
  LET opts == SelectSeq(wire.records["ar"], LAMBDA rr : rr.type = "OPT")
  IN IF opts = <<>> THEN <<>> ELSE <<Last(opts)>>

Subnets(opt) == SelectSeq(opt.options, LAMBDA o : o.code = "subnet")

\* A message without an OPT record leaves the fields as they are; its options come
\* behind those that are already there.
ParseEDNS(opt, edns) ==
  IF opt = <<>> THEN edns
  ELSE [version |-> opt[1].version,
        dnssecOK |-> opt[1].dnssecOK,
        subnet |-> IF Subnets(opt[1]) = <<>> THEN edns.subnet ELSE Last(Subnets(opt[1])).value,
        options |-> edns.options \o opt[1].options]

\* The OPT record is appended to its section as any other.
AppendRR(rrs) == [i \in DOMAIN rrs |-> [type |-> rrs[i].type, data |-> rrs[i].data]]

\* parseDNS.  What an unreadable message would have set keeps the value it has.
ParseDNS(wire, event, isQuery) ==
  IF wire.kind = "malformed" THEN [event EXCEPT !.malformed = TRUE]
  ELSE [event EXCEPT !.id = wire.id,
                     !.flags = wire.flags,
                     !.rcode = IF isQuery THEN @ ELSE wire.rcode,
                     !.question = IF wire.questions = <<>> THEN @ ELSE Head(wire.questions),
                     !.resource = [s \in Sections |-> AppendRR(wire.records[s])],
                     !.edns = ParseEDNS(Opt(wire), @)]

ParsePart(wire, event, isQuery) ==
  IF wire.kind = "absent" THEN event ELSE ParseDNS(wire, event, isQuery)

ResponseFirst(m, event) ==   \* mutant of BothParts: the query overwrites the response
  ParsePart(m.query, ParsePart(m.response, event, FALSE), TRUE)

\* The query, and over it the response
BothParts(m, event) ==
  ParsePart(m.response, ParsePart(m.query, event, TRUE), FALSE)

DecodeToEvent(m, now) ==
  BothParts(m, [Blank EXCEPT !.ip = m.ip,
                             !.timestamp = TimesOf(m, now).timestamp,
                             !.latency = TimesOf(m, now).latency,
                             !.policy = ParseExtra(m.extra)])

-----------------------------------------------------------------------------
Readable(wire) == wire.kind = "dns"

IsWire(wire) ==
  /\ wire.kind \in {"absent", "malformed", "dns"}
  /\ Readable(wire) =>
       /\ wire.questions \in Seq(STRING)
       /\ \A opt \in Range(Opt(wire)) : opt.options \in Seq([code : STRING, value : STRING])

IsMessage(m) ==
  /\ IsWire(m.query) /\ IsWire(m.response)
  /\ m.queryTime \in Nat /\ m.responseTime \in Nat

-----------------------------------------------------------------------------
(* Properties, of every message of a set *)

\* An event is a response exactly if the last of its parts that can be read has QR
\* set, and it has the id of that part.  If the response alone cannot be read the
\* event is a query again, marked as malformed.
KindIsThatOfTheLastReadable(m) ==
  LET e == DecodeToEvent(m, 1)
      last == IF Readable(m.response) THEN m.response ELSE m.query
  IN /\ ("QR" \in e.flags) = (Readable(last) /\ "QR" \in last.flags)
     /\ e.id = IF Readable(last) THEN last.id ELSE 0
     /\ e.malformed = ("malformed" \in {m.query.kind, m.response.kind})

\* A response code never comes from a query, and a response that repeats no
\* question has the one of its query.
ResponseAndQuestionBelong(m) ==
  LET e == DecodeToEvent(m, 1)
      asked(w) == IF Readable(w) /\ w.questions # <<>> THEN {w.questions[1]} ELSE {}
  IN /\ e.rcode = IF Readable(m.response) THEN m.response.rcode ELSE ""
     /\ e.question \in IF asked(m.response) # {} THEN asked(m.response)
                       ELSE IF asked(m.query) # {} THEN asked(m.query) ELSE {""}

\* The version and the DO bit are those of the last OPT record, that of the response if
\* it has one, and the options are those of both.  The subnet is the response's if it
\* names one, and else the query's: it may stand beside the version of a response that
\* says nothing of a subnet.
EDNSIsOfBothParts(m) ==
  LET edns == DecodeToEvent(m, 1).edns
      opts(w) == IF Readable(w) THEN Opt(w) ELSE <<>>
      both == opts(m.query) \o opts(m.response)
      options(w) == IF opts(w) = <<>> THEN <<>> ELSE opts(w)[1].options
      subnets(w) == IF opts(w) = <<>> THEN <<>> ELSE Subnets(opts(w)[1])
  IN /\ edns.version = IF both = <<>> THEN 0 ELSE Last(both).version
     /\ edns.dnssecOK = IF both = <<>> THEN FALSE ELSE Last(both).dnssecOK
     /\ edns.options = options(m.query) \o options(m.response)
     /\ edns.subnet = IF subnets(m.response) # <<>> THEN Last(subnets(m.response)).value
                      ELSE IF subnets(m.query) # <<>> THEN Last(subnets(m.query)).value
                      ELSE ""

\* The clock of the server is used only for a message that carries no time.
TimeIsOfTheMessage(m) ==
  LET at(now) == DecodeToEvent(m, now).timestamp
  IN IF {m.queryTime, m.responseTime} = {0} THEN at(1) # at(2)
     ELSE at(1) = at(2) /\ at(1) \in {m.queryTime, m.responseTime} \ {0}

DecodedAsSent(m) ==
  /\ KindIsThatOfTheLastReadable(m)
  /\ ResponseAndQuestionBelong(m)
  /\ EDNSIsOfBothParts(m)
  /\ TimeIsOfTheMessage(m)
=============================================================================
