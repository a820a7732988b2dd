--------------------------- MODULE Classifiers ---------------------------
(***************************************************************************)
(* The two classifiers of cargo logs as pure operators: Scheme 1            *)
(* (cargo_classifier.py) names what broke after an update, Scheme 2         *)
(* (cargo_failure_classifier.py) why the commit before it did not build.    *)
(* Both search texts for markers.  A log is a sequence of lines, and a line *)
(* is the kind of thing cargo says there: the operators below say which     *)
(* kinds carry which marker.                                                *)
(***************************************************************************)
EXTENDS Naturals, Sequences, FiniteSets

\* rustc's codes in the order sorted() puts them; the last needs a nightly.
Codes == <<"E0277", "E0308", "E0554">>
NightlyCodes == {"E0554"}

\* Records of cargo's JSON stream: a warning (its code is a lint), an error
\* with a code, an error of the linker without one.
JsonCode == [l \in {"json E0277", "json E0308", "json E0554"} |->
               IF l = "json E0277" THEN 1 ELSE IF l = "json E0308" THEN 2 ELSE 3]
JsonWarning == {"json warning"}
JsonLinker == {"json lib", "json symbol"}
JsonErrors == DOMAIN JsonCode \cup JsonLinker

\* Headers "error[E....]:" of the text rustc prints without JSON.
TextCode == [l \in {"error[E0308]"} |-> 2]

\* Lines that repeat that a build failed: _GENERIC_TERMINAL.
Generic == {"error: build failed", "error: could not compile, N errors"}

\* Lines that begin with "error" ...
ErrorLines ==
  Generic \cup DOMAIN TextCode \cup
  { "error: reproducer timeout", "error: no Cargo.toml", "error: lock file stale",
    "error: cannot update lock file", "error: openssl-sys build", "error: fuse build",
    "error: custom build", "error: requires newer rustc", "error: failed to get",
    "error: resolve patches", "error: select a version", "error: SIGSEGV",
    "error: test failed", "error: could not compile", "error: message format",
    "error: toolchain", "error: json-target-spec", "error: other" }

\* What a file has where nobody wrote: NULs before the offset of a writer under
\* whom another has truncated it.
Gap == "NULs"

\* ... and lines that do not: what programs print on the way.
ChatterLines ==
  { "incompatible compiler", "Package fuse was not found", "panicked at",
    "unable to detect OpenSSL", "test result: FAILED", "failures: mem uninitialized",
    "failed to fetch", "rustc --explain E0308", Gap }

LogLines == DOMAIN JsonCode \cup JsonWarning \cup JsonLinker \cup ErrorLines \cup ChatterLines

None == "none"

\* "marker in low" for a marker that the lines of K carry.
Has(log, K) == \E i \in DOMAIN log : log[i] \in K

-----------------------------------------------------------------------------
(* Scheme 2 *)

\* extract_terminal_error: the last error line that is not a summary.
TerminalOf(log, skip) ==
  LET at == {i \in DOMAIN log : log[i] \in ErrorLines \ skip}
  IN  IF at = {} THEN "" ELSE log[CHOOSE i \in at : \A j \in at : j <= i]

\* Mutant of Terminal: the summaries are not skipped.
TerminalLast(log) == TerminalOf(log, {})

Terminal(log) == TerminalOf(log, Generic)

\* count_rustc_error_codes: the coded errors of the JSON stream; without any,
\* the headers of the text.
CountsBy(log, codeOf) ==
  [c \in DOMAIN Codes |-> Cardinality({i \in DOMAIN log : /\ log[i] \in DOMAIN codeOf
                                                         /\ codeOf[log[i]] = c})]
CodeCounts(log) ==
  IF Has(log, DOMAIN JsonCode) THEN CountsBy(log, JsonCode) ELSE CountsBy(log, TextCode)

\* The code fired most often, of equals the smallest; 0 without any.
MostFired(counts) ==
  LET fired == {c \in DOMAIN Codes : counts[c] > 0}
  IN  IF fired = {} THEN 0
      ELSE CHOOSE c \in fired : \A d \in fired :
             counts[d] < counts[c] \/ (counts[d] = counts[c] /\ c <= d)

\* extract_linker_failure: of the first linker error only.
LinkerKind(log) ==
  LET at == {i \in DOMAIN log : log[i] \in JsonLinker}
  IN  IF at = {} THEN None
      ELSE IF log[CHOOSE i \in at : \A j \in at : i <= j] = "json lib" THEN "-l" ELSE "sym"

Rule(when, category, sub) == [when |-> when, category |-> category, sub |-> sub]

\* Mutant of ScriptPanics, the rule as it once was: a panic anywhere will do.
ScriptPanicsAnywhere(log) ==
  Terminal(log) \in {"error: fuse build", "error: custom build"} \/ Has(log, {"panicked at"})

\* A build script is what the log ends with.
ScriptPanics(log) == Terminal(log) \in {"error: fuse build", "error: custom build"}

\* The first rules of _classify_inner: markers that are final wherever they
\* stand, then causes the terminal error names.
EarlyRules(log) ==
  LET term == Terminal(log) IN
  << Rule(Has(log, {"error: reproducer timeout"}), "TIMEOUT", None),
     Rule(Has(log, {"error: no Cargo.toml"}), "REPO_GONE", None),
     Rule(Has(log, {"error: lock file stale", "error: cannot update lock file"}),
          "LOCK_FILE_STALE", None),
     Rule(Has(log, {"incompatible compiler"}), "NIGHTLY_REQUIRED", None),
     Rule(Has(log, {"error: json-target-spec"}), "NIGHTLY_REQUIRED", "json_target_spec"),
     Rule(term = "error: openssl-sys build", "OPENSSL_MISMATCH", None),
     Rule(Has(log, {"Package fuse was not found"}) /\ term = "error: fuse build",
          "NATIVE_DEP_MISSING", "fuse"),
     Rule(Has(log, {"error: requires newer rustc"}), "MSRV_TOO_LOW", None),
     Rule(Has(log, {"error: failed to get"}), "DEPENDENCY_RESOLUTION", "GIT_DEP_GONE"),
     Rule(Has(log, {"error: resolve patches"}), "DEPENDENCY_RESOLUTION", "RESOLVE_PATCHES"),
     Rule(Has(log, {"error: select a version"}), "DEPENDENCY_RESOLUTION", "REGISTRY_RESOLVER"),
     Rule(term = "error: SIGSEGV", "RUNTIME_CRASH", "SIGSEGV"),
     Rule(ScriptPanics(log), "RUNTIME_CRASH", "BUILD_SCRIPT_PANIC") >>

\* The rest: codes, tests, network, linker, and what is left.
LateRules(log) ==
  LET code == MostFired(CodeCounts(log))
      name == IF code = 0 THEN None ELSE Codes[code]
      tests == Has(log, {"test result: FAILED", "error: test failed"}) IN
  << Rule(code # 0 /\ name \in NightlyCodes, "NIGHTLY_REQUIRED", name),
     Rule(code # 0, "RUSTC_BITROT", name),
     Rule(tests /\ Has(log, {"failures: mem uninitialized"}),
          "RUSTC_BITROT", "RUNTIME_MEM_UNINIT"),
     Rule(tests, "TEST_FAILURE", None),
     Rule(Has(log, {"failed to fetch"}), "NETWORK_ERROR", None),
     Rule(Has(log, {"error: message format"}), "OLD_MESSAGE_FORMAT", None),
     Rule(LinkerKind(log) # None, "NATIVE_DEP_MISSING", LinkerKind(log)),
     Rule(Has(log, {"error: could not compile", "error: could not compile, N errors"}),
          "RUSTC_BITROT", None),
     Rule(Terminal(log) = "", "NO_LOG", None),
     Rule(TRUE, "OTHER", None) >>

\* The first rule that applies.
Decide(rules) ==
  LET i == CHOOSE i \in DOMAIN rules :
             rules[i].when /\ \A j \in DOMAIN rules : rules[j].when => i <= j
  IN  [category |-> rules[i].category, sub |-> rules[i].sub]

ClassifyFull(log) == Decide(EarlyRules(log) \o LateRules(log))

Categories ==
  { "REPO_GONE", "LOCK_FILE_STALE", "OPENSSL_MISMATCH", "NATIVE_DEP_MISSING",
    "NIGHTLY_REQUIRED", "RUSTC_BITROT", "TEST_FAILURE", "RUNTIME_CRASH", "NETWORK_ERROR",
    "TIMEOUT", "DEPENDENCY_RESOLUTION", "MSRV_TOO_LOW", "OLD_MESSAGE_FORMAT", "NO_LOG",
    "OTHER" }

-----------------------------------------------------------------------------
(* Scheme 1 *)

\* The kind within COMPILATION_FAILURE: that of the first code of the JSON
\* stream, of whatever level; a lint is a code like any other.  "" without one.
CompileSub(log) ==
  LET at == {i \in DOMAIN log : log[i] \in DOMAIN JsonCode \cup JsonWarning}
      first == log[CHOOSE i \in at : \A j \in at : i <= j]
  IN  IF at = {} THEN ""
      ELSE IF first = "json E0277" THEN "TRAIT_BOUND_NOT_SATISFIED"
      ELSE IF first = "json E0308" THEN "TYPE_MISMATCH" ELSE "OTHER_COMPILE_ERROR"

\* The rules of cargo_classifier.py: the top category and, where the rule names
\* one, the kind within it.
UpdateRules(log) ==
  << Rule(CompileSub(log) # "", "COMPILATION_FAILURE", CompileSub(log)),
     Rule(Has(log, {"error: reproducer timeout"}), "ENVIRONMENT_FAILURE", "TEST_TIMEOUT"),
     Rule(Has(log, {"unable to detect OpenSSL"}), "ENVIRONMENT_FAILURE", "OPENSSL_VERSION_DETECT"),
     Rule(Has(log, {"incompatible compiler"}), "ENVIRONMENT_FAILURE", "INCOMPATIBLE_COMPILER"),
     Rule(Has(log, {"error: lock file stale"}), "DEPENDENCY_RESOLUTION_FAILURE", "LOCK_FILE_STALE"),
     Rule(Has(log, {"error: select a version", "error: failed to get", "error: no Cargo.toml"}),
          "DEPENDENCY_RESOLUTION_FAILURE", None),
     Rule(Has(log, {"test result: FAILED", "panicked at", "failures: mem uninitialized"}),
          "TEST_FAILURE", "OTHER_TEST_FAILURE"),
     Rule(Has(log, {"error: toolchain", "json lib"}), "ENVIRONMENT_FAILURE", None),
     Rule(TRUE, "OTHER", None) >>

Classify(log) == Decide(UpdateRules(log))
=============================================================================
