-------------------------- MODULE MCBrowserSession --------------------------
(* What the tabs of a small browser do.                                    *)
EXTENDS BrowserSession

\* One tab does everything; another is opened beside it.
TwoTabs == [t1 |-> {"c1", "login", "logout"}, t2 |-> {}]

\* One tab that does everything.
OneTab == [t1 |-> {"c1", "login", "logout"}]
=============================================================================
