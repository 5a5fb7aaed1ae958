-------------------------- MODULE MCCodeValidation --------------------------
(* CodeValidation with three of the five gates, candidates of code_demo.py and *)
(* of tests/test_code_validation.py, and one for a commit with a link in it.   *)
EXTENDS CodeValidation

MCGates == <<"build", "unit", "static">>
MCAllowed == {"src/calc.py", "src/cli.py"}
MCUnsafe == {"../escape"}

Header(path) == [kind |-> "header", path |-> path]
Text == [kind |-> "text"]
Diff(path) == <<Header(path), Header(path), Text>>

Candidate(lines, edits, applies, defect) ==
    [lines |-> lines, edits |-> edits, applies |-> applies, defect |-> defect,
     regular |-> TRUE]
Edit(defect) == Candidate(Diff("src/calc.py"), {"src/calc.py"}, TRUE, defect)
Refused(lines, edits) == Candidate(lines, edits, TRUE, "any")

MCCandidates == [
    valid       |-> Edit("none"),
    linked      |-> [Edit("none") EXCEPT !.regular = FALSE],
    syntax      |-> Edit("build"),
    unit        |-> Edit("unit"),
    static      |-> Edit("static"),
    unknown     |-> Edit("any"),
    conflicting |-> Candidate(Diff("src/calc.py"), {"src/calc.py"}, FALSE, "any"),
    protected   |-> Refused(Diff("tests/test_unit.py"), {"tests/test_unit.py"}),
    escape      |-> Refused(Diff("../escape"), {"../escape"}),
    rename      |-> Refused(<<[kind |-> "extended"]>> \o Diff("src/calc.py"), {"src/calc.py"}),
    crossed     |-> Refused(<<Header("src/calc.py"), Header("src/cli.py")>>, {"src/cli.py"}),
    empty       |-> Refused(<<>>, {}),
    unpaired    |-> Refused(<<Header("src/calc.py"), Text>>, {}),
    lookalike   |-> Refused(Diff("src/calc.py") \o Diff("src/cli.py"), {"src/calc.py"})]
=============================================================================
