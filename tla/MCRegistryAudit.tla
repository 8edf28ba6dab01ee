---------------------------- MODULE MCRegistryAudit ----------------------------
(* Small instances of the audit of one package: hooks that run no file,    *)
(* one that only prints, one that is not in the package, one that may not  *)
(* be asked for; versions that do not match; and releases on PyPI.         *)
EXTENDS RegistryAudit

GitHub(path) == [host |-> "github", path |-> path]
Plain(code, quoted) == [code |-> code, quoted |-> quoted]
Hook(form, text, ref) == [form |-> form, text |-> text, ref |-> ref]
Runs(ref) == Hook("plain", Plain({}, {}), ref)
Release(hooks) == [agrees |-> TRUE, hooks |-> hooks, repository |-> GitHub(<<"o", "r", "issues">>),
                   deprecated |-> {}, spawners |-> FALSE]
Npm(hooks) == [versions |-> [v \in {"1"} |-> Release(hooks)], latest |-> "1", deprecated |-> FALSE]
Pypi(files) == [releases |-> [v \in {"1"} |-> files], latest |-> "1", repository |-> Unusable]
Wheel == [wheel |-> TRUE, yanked |-> FALSE]

Scripts == [prints |-> Plain({"print"}, {}), fetches |-> Plain({"write"}, {"network"}),
            asks |-> Plain({"network"}, {"write"}), literal |-> Plain({"spawn"}, {}), odd |-> Plain({"print", "require"}, {})]
HookSets == {{}, {Runs("prints")}, {Runs("fetches")}, {Runs("asks"), Runs("literal")}, {Runs("gone")}, {Runs("odd"), Runs("gone")},
             {Hook("echo", Plain({}, {"print"}), NoRef)},
             {Hook("plain", Plain({}, {"download"}), "prints"), Runs("prints")}}
Base == [caller |-> "registry", type |-> "npm", named |-> TRUE, pinned |-> TRUE, stdio |-> TRUE, version |-> "1",
         repository |-> GitHub(<<"o", "r">>), document |-> NoDocument, files |-> Scripts, unsafe |-> {"odd"},
         elsewhere |-> {}]
Elsewhere(type) ==
    CASE type = "npm" -> {NoDocument, Npm({Runs("prints")}), [Npm({Runs("fetches")}) EXCEPT !.versions["1"].agrees = FALSE]}
      [] type = "pypi" -> {NoDocument, Pypi({[wheel |-> FALSE, yanked |-> FALSE]})}
      [] OTHER -> {}
SomeSubjects ==
    {[Base EXCEPT !.caller = caller, !.document = Npm(hooks)] : caller \in {"registry", "repository"}, hooks \in HookSets}
    \cup {[Base EXCEPT !.caller = caller, !.type = type] : caller \in {"registry", "repository"}, type \in {"npm", "pypi"}}
    \cup {[Base EXCEPT !.caller = caller, !.type = "pypi", !.document = Pypi(files)] :
            caller \in {"registry", "repository"}, files \in {{}, {Wheel}, {[wheel |-> FALSE, yanked |-> TRUE]}}}
    \cup {[Base EXCEPT !.type = "other"],
          [Base EXCEPT !.named = FALSE, !.document = Npm({})],
          [Base EXCEPT !.caller = "repository", !.pinned = FALSE, !.document = Npm({Runs("prints")})],
          [Base EXCEPT !.version = "2", !.document = Npm({})],
          [Base EXCEPT !.repository = GitHub(<<"o", "s">>), !.document = Npm({})],
          [Base EXCEPT !.repository = Unusable, !.document = [Npm({}) EXCEPT !.versions["1"].repository = NoRepository,
                                                                         !.latest = "none", !.deprecated = TRUE]]}
MCSubjects == {[s EXCEPT !.elsewhere = Elsewhere(s.type)] : s \in SomeSubjects}
================================================================================
