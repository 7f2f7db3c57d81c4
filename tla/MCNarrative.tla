---------------------------- MODULE MCNarrative ----------------------------
(***************************************************************************)
(* An instance of Narrative for TLC.  A request varies one thing: what the *)
(* providers answer, which addresses are busy, how captures share the host *)
(* name cache, what the detectors found, how long a prompt is.             *)
(***************************************************************************)
EXTENDS Narrative, TLC

CONSTANTS w1, w2, a1, a2, d1, n1, n2

MCFirstNames == [a \in Addresses |-> n1]

MCPrivate == {"host"}

MCTitles == <<"Executive Summary", "IOC Summary">>

Flow(a, b, n) == [src |-> a, dst |-> b, size |-> n]

Clear == [rows |-> <<>>, beacons |-> <<>>, flows |-> <<>>, certificates |-> <<>>,
          ports |-> "clear", dns |-> "clear", tls |-> "clear", yara |-> "clear", ja3 |-> "clear"]

Plain == [addresses |-> Addresses, osint |-> FALSE, keys |-> {}, top |-> 1, flows |-> {}, replies |-> {"payload"},
          mayFail |-> FALSE, reportOnly |-> FALSE, llm |-> FALSE, configured |-> TRUE,
          backend |-> "openai", unlimited |-> FALSE, evidence |-> Clear, limit |-> 1,
          prompts |-> {[system |-> 9, user |-> 30, budget |-> 40]}, regenerate |-> FALSE, again |-> FALSE]

Alone(r) == w1 :> r

Answering ==
  {Alone([Plain EXCEPT !.addresses = {a1}, !.osint = TRUE, !.keys = {"vt", "gn"}, !.llm = TRUE,
                       !.replies = replies, !.mayFail = "error" \in replies]) :
     replies \in {{"payload", "nodata", "limited"}, {"error", "odd"}}}

Crowds == {Alone([Plain EXCEPT !.osint = TRUE, !.keys = {"vt"}, !.flows = f, !.top = n]) :
           n \in 1 .. 2,
           f \in SUBSET {Flow(a1, "host", 2), Flow("host", a2, 1), Flow("host", a2, 3), Flow(a2, a1, 4)}}

Sharing == {(w1 :> [Plain EXCEPT !.addresses = {a1}, !.osint = TRUE, !.again = TRUE])
              @@ (w2 :> [Plain EXCEPT !.addresses = {a1}])}

UpTo(n, S) == UNION {[1 .. k -> S] : k \in 0 .. n}

Evidence ==
  {[Clear EXCEPT !.rows = r] : r \in UpTo(3, {"low", "medium", "critical"})}
    \cup {[Clear EXCEPT !.flows = f] : f \in UpTo(2, {"ok", "bad"})}
    \cup {[Clear EXCEPT !.beacons = f] : f \in UpTo(2, {"ok", "bad"})}
    \cup {[Clear EXCEPT !.certificates = f, !.tls = t] : f \in UpTo(2, {"ok", "bad"}), t \in {"clear", "error"}}
    \cup {[Clear EXCEPT !.dns = d, !.yara = y, !.ja3 = j] :
            d \in {"clear", "found", "skipped"}, y \in {"clear", "found"}, j \in {"found", "absent"}}
    \cup {[Clear EXCEPT !.rows = r, !.ports = "found"] : r \in {<<>>, <<"high">>}}

Write == [Plain EXCEPT !.reportOnly = TRUE, !.llm = TRUE]

Writing == {Alone([Write EXCEPT !.backend = b, !.unlimited = u, !.configured = c, !.regenerate = TRUE]) :
              b \in {"openai", "anthropic", "local"}, u \in BOOLEAN, c \in BOOLEAN}

Judging == {Alone([Write EXCEPT !.backend = "local", !.evidence = e]) : e \in Evidence}

(* What the derivations of a stage hide when they raise.                   *)
Lost ==
  {[Clear EXCEPT !.rows = r] : r \in UpTo(2, {"low", "medium", "critical"})}
    \cup {[Clear EXCEPT !.flows = <<"bad">>, !.ports = p, !.ja3 = j] : p \in {"clear", "found"}, j \in {"clear", "found"}}

Losing == {Alone([Write EXCEPT !.backend = "local", !.evidence = e, !.mayFail = TRUE]) : e \in Lost}

Prompts == {Alone([Write EXCEPT !.unlimited = u,
                                !.prompts = [system : {0, 9, 30}, user : {3 * k : k \in 0 .. 20}, budget : 1 .. 20]]) :
              u \in BOOLEAN}

MCRequests == Answering \cup Crowds \cup Sharing \cup Writing \cup Judging \cup Losing \cup Prompts
=============================================================================
