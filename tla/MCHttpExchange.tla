--------------------------- MODULE MCHttpExchange ---------------------------
(* A buffer of three bytes, headers of two to four, bodies of none to five, *)
(* with a Content-Length that is right, one too large or missing, complete  *)
(* and broken off; urls without a port, with a usual one, with one that is  *)
(* negative as a short and one that is another as a short.                  *)
EXTENDS HttpExchange

MCResponses ==
  {r \in [Head : 2..4, sent : 0..7, length : 0..6, nul : BOOLEAN, closes : BOOLEAN] :
     r.length \in IF r.sent < r.Head THEN {0} ELSE {0, r.sent - r.Head, r.sent - r.Head + 1}}

MCUrls ==
  [method : {"GET"}, http : {TRUE}, port : {0, 8080, 40000, 65616}]
    \cup [method : {"GET", "POST"}, http : {FALSE}, port : {8080}]
=============================================================================
