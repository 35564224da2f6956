---------------------------- MODULE MCWorkspace ----------------------------
EXTENDS Workspace
CONSTANTS x, y, blank, None
MCWords == {x, y, blank}
MCLineHash == [w \in MCWords |-> w]
MCContents == {<<x>>}
MCInitialTexts == {[words |-> <<blank, x>>, ends |-> TRUE],
                   [words |-> <<x, y, x>>, ends |-> FALSE]}
MCSymmetry == Permutations(Agents)
=============================================================================
