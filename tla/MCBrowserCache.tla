--------------------------- MODULE MCBrowserCache ---------------------------
(* TLC instances of BrowserCache.                                           *)
EXTENDS BrowserCache

============================================================================
