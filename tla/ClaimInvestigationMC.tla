------------------------ MODULE ClaimInvestigationMC ------------------------
(***************************************************************************)
(* A repository of up to five files.  api calls core by its import, caller *)
(* calls api the same way, test_api is a test of api, and other, which few *)
(* revisions have, calls a method that is named like core's symbol.  The   *)
(* revision pairs change, add, remove, enlarge and break these files.      *)
(***************************************************************************)
EXTENDS ClaimInvestigation

MCPaths == <<"api", "caller", "core", "other", "test_api">>
MCName  == [f \in {"api", "caller", "core", "other", "test_api"} |->
              CASE f = "other" -> "spare" [] OTHER -> f]
MCVisibility == [f \in {"api", "caller", "core", "other", "test_api"} |->
              CASE f = "api" -> "exported" [] f = "core" -> "private"
                [] f = "other" -> "internal" [] OTHER -> "public"]
MCTests == {"test_api"}

Calls(f)  == Reference(f, f, "alias", TRUE)
Method(f) == Reference(f, None, "attribute", TRUE)

First(f) == CASE f = "api"    -> Blob(1, "parsed", 1, <<Calls("core")>>, {})
              [] f = "caller" -> Blob(1, "parsed", 1, <<Calls("api")>>, {})
              [] f = "core"   -> Blob(1, "parsed", 1, <<>>, {})
              [] f = "other"  -> Blob(1, "parsed", 1, <<Method("core")>>, {})
              [] OTHER        -> Blob(1, "parsed", 1, <<Calls("api")>>,
                                      {Hint("api", "api", "import"), Hint("core", "core", "text")})

Edited(f) == [First(f) EXCEPT !.body = 2]
Broken(f) == [First(f) EXCEPT !.state = "syntax_error"]
Opaque(f) == [First(f) EXCEPT !.state = "undecodable"]
Linked(f) == [First(f) EXCEPT !.state = "symlink"]
Large(f)  == [First(f) EXCEPT !.size = 3]
Big(f)    == [First(f) EXCEPT !.size = 2]

Tree(special) == [f \in Range(MCPaths) |-> IF f \in DOMAIN special THEN special[f]
                                           ELSE IF f = "other" THEN Absent ELSE First(f)]
On(f, blob)     == [g \in {f} |-> blob]
Two(f, a, g, b) == [h \in {f, g} |-> IF h = f THEN a ELSE b]
Other == First("other")

MCRepositories ==
  {[BASE |-> Tree(p[1]), HEAD |-> Tree(p[2])] : p \in
    {<<<<>>, On("core", Edited("core"))>>,
     <<On("other", Other), On("other", Edited("other"))>>,
     <<Two("core", Absent, "caller", Absent), <<>>>>,
     <<Two("core", Absent, "other", Other), Two("caller", Absent, "other", Other)>>,
     <<<<>>, On("caller", Absent)>>,
     <<<<>>, On("api", Broken("api"))>>,
     <<On("core", Opaque("core")), <<>>>>,
     <<<<>>, Two("test_api", Edited("test_api"), "core", Edited("core"))>>,
     <<On("caller", Linked("caller")), On("api", Edited("api"))>>,
     <<<<>>, Two("api", Edited("api"), "core", Edited("core"))>>,
     <<On("other", Other), Two("api", Absent, "other", Other)>>,
     <<On("core", Large("core")), On("core", Edited("core"))>>,
     <<On("api", Big("api")), Two("api", Edited("api"), "core", Edited("core"))>>,
     <<Two("caller", Edited("caller"), "test_api", Absent),
       Two("api", Edited("api"), "core", Edited("core"))>>}}

MCQueries ==
  [tool: {"inspect_symbol"}, rev: {"BASE", "HEAD"}, name: {None}, path: {"caller", "core"}]
    \cup [tool: {"inspect_symbol"}, rev: {"HEAD", "other"}, name: {"api", "spare"}, path: {None}]
    \cup [tool: {"find_references", "find_related_tests", "unknown"}, rev: {"HEAD"},
          name: {None, "core"}, path: {None}]
    \cup [tool: {"inspect_source_window"}, rev: {"BASE"}, name: {None}, path: {"caller", "other"}]
=============================================================================
