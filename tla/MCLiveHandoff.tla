--------------------------- MODULE MCLiveHandoff ----------------------------
(* TLC instances of LiveHandoff. *)
EXTENDS LiveHandoff

Nothing == [edits |-> 0, views |-> 0, saves |-> 0, reloads |-> 0, starts |-> 0,
            crashes |-> 0, breaks |-> 0, expiries |-> 0, yields |-> TRUE,
            allow |-> {}]

\* One instance after the other, and a little of every disorder.
OneByOne == [Nothing EXCEPT !.edits = 2, !.views = 1, !.saves = 2, !.starts = 3]
Disorder == [Nothing EXCEPT !.edits = 1, !.views = 1, !.saves = 1, !.starts = 3]
Mixed == {[OneByOne EXCEPT !.crashes = 1],
          [OneByOne EXCEPT !.reloads = 1, !.expiries = 1],
          [OneByOne EXCEPT !.breaks = 1],
          [OneByOne EXCEPT !.yields = FALSE, !.starts = 4],
          [OneByOne EXCEPT !.yields = FALSE, !.saves = 1, !.reloads = 1,
                           !.crashes = 1],
          [Disorder EXCEPT !.allow = {"sleeper", "late"}],
          [Disorder EXCEPT !.starts = 2, !.breaks = 1,
                           !.allow = {"late", "together"}],
          [Disorder EXCEPT !.views = 0, !.starts = 2, !.breaks = 1,
                           !.allow = {"overlap", "bootFix"}]}

\* An instance that stands by ends.
Sleeper == {[Nothing EXCEPT !.edits = 2, !.saves = 1, !.starts = 3,
                            !.allow = {"sleeper"}]}
=============================================================================
