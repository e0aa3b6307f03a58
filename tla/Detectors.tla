------------------------------ MODULE Detectors ------------------------------
(***************************************************************************)
(* The detectors that look at the content of a request: structural.rs,     *)
(* signatures.rs and injection.rs.  Each operator gives the verdicts in the  *)
(* order the detector pushes them; libinjection and aho-corasick are modelled *)
(* by what the detectors take from their answers.                           *)
(***************************************************************************)
EXTENDS RequestView

CONSTANTS MAX_HEADER_BYTES, MAX_HEADER_COUNT

ASSUME DetectorsAssumption == {MAX_HEADER_BYTES, MAX_HEADER_COUNT} \subseteq Nat

ALLOWED_METHODS == {"GET", "POST", "PUT", "PATCH", "DELETE", "HEAD", "OPTIONS"}

Verdict(group, rule, severity) == [group |-> group, rule |-> rule, severity |-> severity]

If(condition, reported) == IF condition THEN << reported >> ELSE << >>

-----------------------------------------------------------------------------
(* structural.rs                                                           *)

\* Somewhere in the decoded path or a decoded query value.
InUrl(req, byte) == Holds(req.path, byte)
                    \/ \E i \in DOMAIN req.query : Holds(req.query[i].value, byte)

InspectStructural(req) ==
  LET Medium(rule) == Verdict("structural", rule, "medium")
  IN  If(req.method \notin ALLOWED_METHODS, Medium("method_not_allowed"))
        \o If(req.headerBytes > MAX_HEADER_BYTES, Medium("headers_too_large"))
        \o If(Len(req.headers) > MAX_HEADER_COUNT, Medium("too_many_headers"))
        \o If(InUrl(req, "nul"), Medium("null_byte"))
        \o If(InUrl(req, "crlf"), Medium("crlf_injection"))

-----------------------------------------------------------------------------
(* signatures.rs                                                           *)

Sig(lit, rule, severity) == [lit |-> lit, rule |-> rule, severity |-> severity]

SIGNATURES ==
  <<Sig("../", "path_traversal", "high"),      Sig("..\\", "path_traversal", "high"),
    Sig("/etc/passwd", "lfi", "critical"),     Sig("/etc/shadow", "lfi", "critical"),
    Sig("/proc/self/environ", "lfi", "critical"), Sig("/web-inf/", "lfi", "high"),
    Sig("$(", "rce_subshell", "critical"),     Sig("backtick", "rce_backtick", "high"),
    Sig("/bin/sh", "rce_shell", "critical"),   Sig(";wget", "rce_cmd", "critical"),
    Sig(";curl", "rce_cmd", "critical"),       Sig(";bash", "rce_cmd", "critical"),
    Sig(";nc ", "rce_cmd", "critical"),        Sig("|bash", "rce_cmd", "critical"),
    Sig("|sh ", "rce_cmd", "critical"),        Sig("${jndi:", "jndi_lookup", "critical"),
    Sig("php://", "php_wrapper", "high"),      Sig("phar://", "php_wrapper", "high"),
    Sig("expect://", "php_wrapper", "critical"), Sig("xp_cmdshell", "rce_sql", "critical"),
    Sig("sqlmap", "scanner_ua", "medium"),     Sig("nikto", "scanner_ua", "medium"),
    Sig("nuclei", "scanner_ua", "medium")>>

Literals == {SIGNATURES[i].lit : i \in DOMAIN SIGNATURES}

\* Two literals next to each other share the slash the one ends and the other
\* begins with.
Shares(a, b) == /\ a \in {"../", "/web-inf/", "php://", "phar://", "expect://"}
                /\ b \in {"/etc/passwd", "/etc/shadow", "/proc/self/environ", "/web-inf/",
                          "/bin/sh"}

\* AhoCorasick::find_iter: the literals in the field from left to right; a match
\* begins after the end of the one before.
find_iter(field) ==
  LET Lit(i) == /\ field[i].enc = 0 /\ field[i].what \in Literals
      found[i \in 0 .. Len(field)] ==
        IF i = 0 THEN [last |-> 0, lits |-> << >>]
        ELSE LET before == found[i - 1]
             IN  IF Lit(i) /\ ~(/\ before.last = i - 1 /\ i > 1
                                /\ Shares(field[i - 1].what, field[i].what))
                 THEN [last |-> i, lits |-> Append(before.lits, field[i].what)]
                 ELSE before
  IN  found[Len(field)].lits

\* mutant: repeated matches are only dropped within a run of the same literal
NoRuns(lits) ==
  FoldLeft(LAMBDA seen, lit : IF seen # << >> /\ Last(seen) = lit THEN seen
                              ELSE Append(seen, lit), << >>, lits)

\* Every pattern once, however often and wherever it matches.
FirstOnly(lits) ==
  FoldLeft(LAMBDA seen, lit : IF Contains(seen, lit) THEN seen ELSE Append(seen, lit),
           << >>, lits)

InspectSignatures(req) ==
  LET fields  == inspectable_fields(req)
      matched == FirstOnly(FlattenSeq([i \in DOMAIN fields |-> find_iter(fields[i])]))
      Entry(lit) == SIGNATURES[CHOOSE i \in DOMAIN SIGNATURES : SIGNATURES[i].lit = lit]
  IN  [i \in DOMAIN matched |->
         Verdict("signatures", Entry(matched[i]).rule, Entry(matched[i]).severity)]

-----------------------------------------------------------------------------
(* injection.rs                                                            *)

\* libinjection: 1, 0, or -1 for an error.  It takes a text that starts like a
\* browser's User-Agent for one and does not see SQL behind it.
libinjection(s, payloads) ==
  IF \E i \in DOMAIN s : s[i].what = "upset" THEN -1
  ELSE IF \E i \in DOMAIN s : s[i].enc = 0 /\ s[i].what \in payloads THEN 1 ELSE 0

\* mutant: an error counts as a hit
IsSqliOrError(s) ==
  libinjection(s, {"sqli", "sjis"}) # 0 /\ (s = << >> \/ s[1] # Plain("browser"))

is_sqli(s) == /\ libinjection(s, {"sqli", "sjis"}) = 1
              /\ s # << >> /\ s[1] # Plain("browser")

is_xss(s) == libinjection(s, {"xss"}) = 1

\* mutant: only the tail behind the last ")" is probed
ParenOnly(ua) ==
  LET paren == LastOf(ua, ")")
  IN  IF paren # 0 /\ Trim(After(ua, paren)) # << >> THEN <<Trim(After(ua, paren))>> ELSE << >>

\* The tail behind the last ")" and the one behind the first space.
ua_suffix_candidates(ua) ==
  LET Tail_(i)   == Trim(After(ua, i))
      paren      == LastOf(ua, ")")
      space      == FirstOf(ua, "space")
      afterParen == IF paren # 0 /\ Tail_(paren) # << >> THEN <<Tail_(paren)>> ELSE << >>
      afterSpace == IF space # 0 /\ Tail_(space) # << >> THEN <<Tail_(space)>> ELSE << >>
  IN  afterParen \o (IF afterSpace = afterParen THEN << >> ELSE afterSpace)

InspectInjection(req) ==
  LET fields == inspectable_fields(req)
      sqli   == Verdict("injection", "sqli", "critical")
      xss    == Verdict("injection", "xss", "high")
      direct == FlattenSeq([i \in DOMAIN fields |-> If(is_sqli(fields[i]), sqli)
                                                      \o If(is_xss(fields[i]), xss)])
      ua     == header(req.headers, "user-agent")
      suffix == /\ ~Contains(direct, sqli) /\ ua # << >>
                /\ \E i \in DOMAIN ua_suffix_candidates(ua[1]) :
                     is_sqli(ua_suffix_candidates(ua[1])[i])
  IN  direct \o If(suffix, sqli)
=============================================================================
