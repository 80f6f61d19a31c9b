---------------------------------- MODULE MCWeb ----------------------------------
EXTENDS Web

B(jobs_, days, deaths, lost, blind) ==
    [jobs |-> jobs_, days |-> days, deaths |-> deaths, lost |-> lost, blind |-> blind]
\* Two jobs and a death, a new day, or a lost answer; a restart without the Venus market, when
\* one job is all there is.
MCBudgets == {B(2, 0, 1, 0, FALSE), B(2, 1, 0, 0, FALSE), B(2, 0, 0, 1, FALSE), B(1, 0, 1, 0, TRUE)}
\* A restart without the Venus market, and two jobs; two answers lost one after the other.
MCBlind == {B(2, 0, 1, 0, TRUE)}
MCTwiceLost == {B(2, 0, 0, 2, FALSE)}

CONSTANTS safe, grow1, grow2

L(plans, txs_, days, rises, ends, obeys) ==
    [plans |-> plans, txs |-> txs_, days |-> days, rises |-> rises, ends |-> ends, obeys |-> obeys]
\* The user obeys: two deposits and a buy with interest, or two days; or does what they
\* like; or a request is cut short.
MCLeeways == {L({grow1, grow2}, 4, 0, 1, 0, TRUE), L({safe, grow1, grow2}, 2, 1, 0, 0, TRUE),
              L({safe, grow1}, 2, 0, 0, 0, FALSE), L({safe, grow1}, 2, 0, 0, 1, TRUE)}

=================================================================================
