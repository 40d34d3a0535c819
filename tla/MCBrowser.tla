----------------------------- MODULE MCBrowser -----------------------------
(* One share, two tabs of one browser; its file may be refused.            *)
EXTENDS Browser
TwoTabs == {1, 2}
OneShare == {"s1"}
ItsFile == {<<"s1", "file">>}
=============================================================================
