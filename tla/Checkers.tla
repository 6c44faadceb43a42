------------------------------ MODULE Checkers ------------------------------
(***************************************************************************)
(* The checkers of src/internal/checker: what one attempt makes of the     *)
(* answer of its target, and how long it takes.  No checker ever returns   *)
(* an error: whatever goes wrong is a result with the status "down".       *)
(*                                                                         *)
(* A monitor is a record [type, retries, status, keyword, record, expected]*)
(* with its columns check_type, retries, expected_status (0 if not set),   *)
(* expected_keyword ("" if not set), dns_record_type, and whether          *)
(* dns_expected is set.  An answer is a record                             *)
(* [kind, delay, code, words, expiring, rcode, records]:                   *)
(*   kind      "reply", "stalls" (the headers of a reply without its body),*)
(*             "refused" (a connection), "unresolved" (a name) or "never"  *)
(*   delay     how long the answer takes                                   *)
(*   code, words, expiring   the HTTP status, the words of the body, and   *)
(*             whether the certificate expires within 7 days               *)
(*   rcode, records   whether the DNS response is a success, and the pairs *)
(*             <<q, t>> such that the response to a query for records of   *)
(*             type q has one of type t that reads as the expected answer  *)
(***************************************************************************)
EXTENDS Integers

(* RegisterAll.  Get fails for any other type, which handleCreateMonitor   *)
(* does not refuse.                                                        *)
CheckTypes == {"icmp", "tcp", "http", "https", "dns", "http_keyword"}

HasBody(m) == m.type \in {"http", "https", "http_keyword"}
Reached(a) == a.kind \in {"reply", "stalls"}

(* With an expected status nothing else will do, an error code included.   *)
StatusAccepted(m, a) ==
  /\ m.status > 0 => a.code = m.status
  /\ m.status = 0 => a.code < 400

(* The certificate is looked at last, and overrides the status code.  The  *)
(* body is thrown away, and so is an error in reading it.                  *)
HTTPChecker(m, a) ==
  IF m.type = "https" /\ a.expiring THEN "degraded"
  ELSE IF StatusAccepted(m, a) THEN "up" ELSE "down"

(* Mutant: the status code is only looked at without the keyword.          *)
KeywordChecker_Page(m, a) ==
  IF a.kind = "reply" /\ m.keyword \in a.words \cup {""} THEN "up" ELSE "down"

(* Every string contains the empty one; expected_status is not looked at.  *)
KeywordChecker(m, a) ==
  IF /\ a.kind = "reply"
     /\ m.keyword \in a.words \cup {""}
     /\ a.code < 400
  THEN "up" ELSE "down"

(* Any record type but these is asked for as A.                            *)
RecordType(m) == IF m.record \in {"AAAA", "CNAME", "MX", "TXT"} THEN m.record ELSE "A"

(* The records of a response that are looked at, whatever was asked for.   *)
AnswerTypes == {"A", "AAAA", "CNAME", "MX", "TXT"}

DNSChecker(m, a) ==
  IF /\ a.rcode
     /\ m.expected => \E t \in AnswerTypes : <<RecordType(m), t>> \in a.records
  THEN "up" ELSE "down"

(* The result of an attempt that was answered in time.  A TCP connection   *)
(* or a ping asks for no more than to be answered.                         *)
Result(m, a) ==
  CASE ~Reached(a) -> "down"
    [] Reached(a) /\ m.type \in {"http", "https"} -> HTTPChecker(m, a)
    [] Reached(a) /\ m.type = "http_keyword" -> KeywordChecker(m, a)
    [] Reached(a) /\ m.type = "dns" -> DNSChecker(m, a)
    [] Reached(a) /\ m.type \in {"icmp", "tcp"} -> "up"

(* How long an attempt takes when its context ends in left.  The name of   *)
(* an ICMP target is resolved before the context is looked at.             *)
Duration(m, a, left) ==
  CASE m.type = "icmp" /\ a.kind = "unresolved" -> a.delay
    [] a.kind = "never" \/ (a.kind = "stalls" /\ HasBody(m)) -> left
    [] OTHER -> IF a.delay < left THEN a.delay ELSE left
=============================================================================
