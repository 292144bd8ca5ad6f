------------------------------ MODULE NetRules ------------------------------
(***************************************************************************)
(* Network command lines and the egress rules, from                        *)
(* internal/engine/rules_net.go.  What an address says is given by HostOf  *)
(* (the host of a URL or an address, "" when there is none), Fields (a     *)
(* value split at its colons, <<>> when it has another number of them),    *)
(* Listed (split at its commas) and Setting (an ssh setting as its key and *)
(* value).  The option tables keep, of each program, the options that name *)
(* a host or a command and one or two of each other kind.                  *)
(***************************************************************************)
EXTENDS FileRules

CONSTANTS HostOf(_), Fields(_, _), Listed(_), Setting(_), RemotePart(_),
          HostGlob(_, _), EgressAllowlist

netTools == {"curl", "wget", "nc", "ncat", "socat", "scp", "rsync", "ftp", "telnet", "ssh",
             "sftp", "invoke-webrequest", "iwr", "invoke-restmethod", "irm"}
fetchTools == {"curl", "wget", "invoke-webrequest", "iwr", "invoke-restmethod", "irm"}
interpreters == {"sh", "bash", "zsh", "dash", "python", "python3", "perl", "ruby", "node",
                 "invoke-expression", "iex", "powershell", "pwsh"}

(* Something fetched reaches an interpreter later in the same pipeline.   *)
laterPipelineStage(a, b) ==
    \E l \in a.pipes : \E r \in b.pipes : l.id = r.id /\ l.stage < r.stage
checkDownloadPipeShell(simples) ==
    IF \E i, j \in DOMAIN simples :
           /\ i < j /\ head(simples[i].argv) \in fetchTools
           /\ head(simples[j].argv) \in interpreters
           /\ laterPipelineStage(simples[i], simples[j])
    THEN Deny("P6.download-pipe-shell") ELSE Pass

(***************************************************************************)
(* Option tables.                                                          *)
(***************************************************************************)
curlProxies == {"--proxy", "--preproxy", "--socks5", "-x"}
curlOptions == [Grammar EXCEPT
    !.flags = {"-f", "-k", "-L", "-s", "-S", "-v", "--fail", "--location", "--silent"},
    !.values = {"-d", "-H", "-K", "-o", "-u", "-X", "--config", "--alt-svc", "--connect-to",
                "--resolve", "--dns-servers", "--data", "--output", "--url"} \cup curlProxies,
    !.permute = TRUE]
wgetOptions == [Grammar EXCEPT
    !.flags = {"-c", "-q", "-r", "-v", "--quiet", "--recursive"},
    !.values = {"-e", "-i", "-O", "-P", "--config", "--input-file", "--output-document"},
    !.permute = TRUE]
sshOptions == [Grammar EXCEPT
    !.flags = {"-4", "-A", "-N", "-n", "-q", "-t", "-v"},
    !.values = {"-D", "-F", "-i", "-J", "-L", "-l", "-o", "-p", "-R", "-S", "-W"}]
sftpOptions == [Grammar EXCEPT
    !.flags = {"-4", "-A", "-q", "-r", "-v"},
    !.values = {"-b", "-D", "-F", "-i", "-J", "-o", "-P", "-R", "-S"}]
NetworkSpec(tool) == CASE tool = "curl" -> curlOptions [] tool = "wget" -> wgetOptions
                       [] tool = "ssh" -> sshOptions [] OTHER -> sftpOptions

inertSSHSettings == {"batchmode", "connecttimeout", "identityfile", "port", "user", "loglevel"}

(***************************************************************************)
(* What one option adds: the hosts it connects to, the host it puts in     *)
(* place of the operand, the commands it runs, or an error.                *)
(***************************************************************************)
Nothing == [err |-> FALSE, hosts |-> {}, over |-> {}, remote |-> <<>>, local |-> <<>>,
            permit |-> FALSE]
Rejected == [Nothing EXCEPT !.err = TRUE]
Reaches(names) ==
    [Nothing EXCEPT !.err = \E n \in names : HostOf(n) = "", !.hosts = {HostOf(n) : n \in names}]

addProxyJumpTargets(v) == IF v = "none" THEN Nothing ELSE Reaches(Range(Listed(v)))

addSSHSettingTarget(s) ==
    CASE s.key = "hostname" -> [Nothing EXCEPT !.err = HostOf(s.value) = "", !.over = {HostOf(s.value)}]
      [] s.key = "proxyjump" -> addProxyJumpTargets(s.value)
      [] s.key = "remotecommand" ->
             [Nothing EXCEPT !.err = s.value = "", !.remote = <<s.value>>]
      [] s.key = "localcommand" ->
             [Nothing EXCEPT !.err = s.value = "",
                             !.local = IF s.value = "none" THEN <<>> ELSE <<s.value>>]
      [] s.key = "permitlocalcommand" ->
             [Nothing EXCEPT !.err = s.value \notin {"yes", "no"}, !.permit = s.value = "yes"]
      [] s.key \in inertSSHSettings -> Nothing
      [] OTHER -> Rejected

sshForwardHost(v) ==
    CASE Fields(v, 4) # <<>> -> Reaches({Fields(v, 4)[3]})
      [] Fields(v, 4) = <<>> /\ Fields(v, 3) # <<>> -> Reaches({Fields(v, 3)[2]})
      [] OTHER -> IF LooksLikePath(v) THEN Nothing ELSE Rejected

CurlTarget(o, v) ==
    CASE o \in {"--config", "-K", "--alt-svc"} -> Rejected
      [] o \in curlProxies -> Reaches({v})
      [] o = "--connect-to" ->
             (IF Fields(v, 4) = <<>> THEN Rejected
              ELSE IF Fields(v, 4)[3] = "" THEN Nothing ELSE Reaches({Fields(v, 4)[3]}))
      [] o = "--resolve" ->
             (IF Fields(v, 3) = <<>> THEN Rejected
              ELSE IF Fields(v, 3)[3] = "" THEN Rejected ELSE Reaches(Range(Listed(Fields(v, 3)[3]))))
      [] o = "--dns-servers" -> Reaches(Range(Listed(v)))
      [] OTHER -> Nothing
SshTarget(tool, o, v) ==
    CASE o \in {"-F", "-D"} \/ (o = "-S" /\ tool = "sftp") -> Rejected
      [] o = "-J" -> addProxyJumpTargets(v)
      [] o = "-o" -> addSSHSettingTarget(Setting(v))
      [] o = "-W" -> Reaches({v})
      [] o \in {"-L", "-R"} /\ tool = "ssh" -> sshForwardHost(v)
      [] OTHER -> Nothing
addNetworkOptionTarget(tool, o, v) ==
    CASE tool = "curl" -> CurlTarget(o, v)
      [] tool = "wget" -> IF o \in {"--config", "--execute", "-e"} THEN Rejected ELSE Nothing
      [] OTHER -> SshTarget(tool, o, v)

Combine(p, adds, urls) ==
    [err |-> p.bad \/ \E j \in DOMAIN adds : adds[j].err,
     operands |-> urls \o p.rest,
     hosts |-> UNION {adds[j].hosts : j \in DOMAIN adds},
     over |-> UNION {adds[j].over : j \in DOMAIN adds},
     sources |-> FlattenSeq([j \in DOMAIN adds |-> adds[j].remote])
                 \o (IF \E j \in DOMAIN adds : adds[j].permit
                     THEN FlattenSeq([j \in DOMAIN adds |-> adds[j].local]) ELSE <<>>)]
parseNetworkArgs(argv, tool) ==
    LET p == Scan(argv, 2, NetworkSpec(tool), Scanned)
    IN  Combine(p, [j \in DOMAIN p.opts |-> addNetworkOptionTarget(tool, p.opts[j].o, p.opts[j].v)],
                ValuesOf(p, {"--url"}))

(* The command lines ssh will run, here or on the other side.             *)
sshCommandSources(a) ==
    [bad |-> a.err, sources |-> a.sources,
     rest |-> IF Len(a.operands) > 1 THEN Tail(a.operands) ELSE <<>>]

(***************************************************************************)
(* The hosts a command line connects to.                                   *)
(***************************************************************************)
isLocalHost(h) == h \in {"localhost", "127.0.0.1", "::1", "0.0.0.0"}
hostAllowed(h) == \E a \in EgressAllowlist : h = a \/ HostGlob(a, h)

HostsOf(names) == [err |-> names = {} \/ \E n \in names : HostOf(n) = "",
                   target |-> TRUE, hosts |-> {HostOf(n) : n \in names}]
Found(hosts) == [err |-> FALSE, target |-> TRUE, hosts |-> hosts]
NoHost == [err |-> TRUE, target |-> TRUE, hosts |-> {}]

UrlHosts(a) ==
    IF \/ a.err \/ \E w \in Range(a.operands) : HostOf(w) = ""
       \/ a.hosts = {} /\ a.operands = <<>>
    THEN NoHost ELSE Found(a.hosts \cup {HostOf(w) : w \in Range(a.operands)})
SshHosts(a) ==
    IF a.err \/ a.operands = <<>> \/ (a.over = {} /\ HostOf(a.operands[1]) = "") THEN NoHost
    ELSE Found(a.hosts \cup IF a.over = {} THEN {HostOf(a.operands[1])} ELSE a.over)
(* The first operand with a remote part decides.                          *)
CopyHosts(args) ==
    LET R == {j \in DOMAIN args : RemotePart(args[j]) # ""}
    IN  IF R = {} THEN [err |-> FALSE, target |-> FALSE, hosts |-> {}]
        ELSE Found({RemotePart(args[CHOOSE j \in R : \A k \in R : j <= k])})

extractHosts(argv, tool, psTargets) ==
    CASE tool \in {"invoke-webrequest", "iwr", "invoke-restmethod", "irm"} -> HostsOf(psTargets)
      [] tool \in {"curl", "wget"} -> UrlHosts(parseNetworkArgs(argv, tool))
      [] tool \in {"scp", "rsync"} -> CopyHosts(nonFlagArgs(argv))
      [] tool \in {"ssh", "sftp"} -> SshHosts(parseNetworkArgs(argv, tool))
      [] tool \in {"nc", "ncat", "telnet", "ftp"} /\ nonFlagArgs(argv) # <<>> ->
             Found({HostOf(nonFlagArgs(argv)[1])})
      [] OTHER -> NoHost

checkEgress(s, psTargets) ==
    LET h == extractHosts(s.argv, head(s.argv), psTargets)
    IN  IF /\ head(s.argv) \in netTools
           /\ h.err \/ (h.target /\ \E n \in h.hosts : Literal(n) /\ ~isLocalHost(n) /\ ~hostAllowed(n))
        THEN Deny("P6.egress") ELSE Pass
=============================================================================
