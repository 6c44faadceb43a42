----------------------------- MODULE MCChecking -----------------------------
(* Instances of Checking for TLC: one monitor of each type, and the answers *)
(* that tell the checkers apart, with a timeout of 3.                       *)
EXTENDS Checking

Plain == [type |-> "tcp", retries |-> 2, status |-> 0, keyword |-> "", record |-> "A",
          expected |-> FALSE]
MCConfigs ==
  {Plain, [Plain EXCEPT !.type = "icmp"], [Plain EXCEPT !.type = "imap"],
   [Plain EXCEPT !.type = "http", !.status = 404, !.retries = 0],
   [Plain EXCEPT !.type = "https", !.retries = 3],
   [Plain EXCEPT !.type = "http_keyword", !.keyword = "welcome"],
   [Plain EXCEPT !.type = "dns", !.record = "MX", !.expected = TRUE]}

Good == [kind |-> "reply", delay |-> 1, code |-> 200, words |-> {"welcome"},
         expiring |-> FALSE, rcode |-> TRUE, records |-> {<<"MX", "MX">>}]
MCAnswers ==
  {Good, [Good EXCEPT !.delay = 2], [Good EXCEPT !.delay = 3],
   [Good EXCEPT !.code = 404, !.records = {<<"MX", "CNAME">>}],
   [Good EXCEPT !.expiring = TRUE, !.records = {<<"A", "A">>}],
   [Good EXCEPT !.kind = "stalls", !.words = {}], [Good EXCEPT !.kind = "never"],
   [Good EXCEPT !.kind = "unresolved", !.delay = 4]}
=============================================================================
