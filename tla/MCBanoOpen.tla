----------------------------- MODULE MCBanoOpen -----------------------------
(* An instance of BanoOpen for TLC: the configuration of the repository,   *)
(* every configuration that includes up to four of five parts, in every     *)
(* order, and others that are wrong in one place each.                     *)
EXTENDS BanoOpen

Node(id) == <<"node", "{", "addr", "=", "a", "nodl_id", "=", id, "}">>
BaseOf(dirs) ==
  <<"base", "{">> \o FlattenSeq([i \in DOMAIN dirs |-> <<"nodl_dir", "=", dirs[i]>>]) \o <<"}">>
IncludeAll(p) == FlattenSeq([i \in DOMAIN p |-> <<".include", p[i]>>])

PartText ==
  "nodls" :> BaseOf(<<"nodl">>) @@
  "others" :> BaseOf(<<"other">>) @@
  "snrf" :> <<"socket", "{", "type", "=", "snrf", "dev_path", "=", "tty", "}">> @@
  "httpd" :> <<"http_server", "{", "port", "=", "80", "auth", "=", "no", "}">> @@
  "node" :> <<"comment", "{", "}">> \o Node("0")

OtherText ==
  "cam" :> <<"cam", "{", "id", "=", "0", "}">> @@
  "sms" :> <<"sms", "{", "https_addr", "=", "ip", "}">> @@
  "base" :> BaseOf(<<"nodl">>) \o IncludeAll(<<"snrf", "cam", "httpd", "sms">>) \o Node("0") \o Node("1") @@
  "devices" :> IncludeAll(<<"snrf", "cam">>) @@
  "nested" :> BaseOf(<<"nodl">>) \o IncludeAll(<<"devices", "node">>) \o Node("1") @@
  "twice" :> BaseOf(<<"nodl", "other">>) \o IncludeAll(<<"snrf", "node">>) \o Node("2") @@
  "directive" :> IncludeAll(<<"others", "devices">>) \o <<".define">> @@
  "unclosed" :> IncludeAll(<<"devices">>) \o <<"node", "{", "addr", "=", "}">> @@
  "lost" :> BaseOf(<<"nodl">>) \o IncludeAll(<<"nowhere">>) @@
  "loops" :> BaseOf(<<"nodl", "broken", "looping">>) @@
  "either" :> IncludeAll(<<"snrf">>) \o <<"socket", "{", "type", "=", "snrf", "type", "=", "tcp", "}">> \o
              IncludeAll(<<"httpd">>) @@
  "broken" :> BaseOf(<<"broken", "nodir">>) \o Node("0") @@
  "refused" :> IncludeAll(<<"snrf">>) \o <<"http_server", "{", "auth", "=", "perhaps", "}">>

Special == {"base", "nested", "twice", "directive", "unclosed", "lost", "loops", "either", "broken",
            "refused", "nowhere"}

Selections == {p \in BoundedSeq(DOMAIN PartText, 4) : p # <<>> /\ IsInjective(p)}
Path(p) == FoldLeft(LAMBDA s, part : s \o "/" \o part, "", p)
SelectionText == [f \in {Path(p) : p \in Selections} |->
                 IncludeAll(CHOOSE p \in Selections : Path(p) = f)]

MCText == PartText @@ OtherText @@ SelectionText
MCFile == DOMAIN PartText \cup DOMAIN OtherText \cup DOMAIN SelectionText
MCConf == Special \cup DOMAIN SelectionText

MCNodl ==
  "nodl" :> ("0" :> "whole" @@ "1" :> "whole") @@
  "other" :> ("0" :> "part" @@ "2" :> "part") @@
  "broken" :> ("0" :> "syntax" @@ "1" :> "whole") @@
  "looping" :> ("1" :> "whole" @@ "2" :> "directive")

MCHash == ("0" :> 0 @@ "1" :> 1 @@ "2" :> 0)
=============================================================================
