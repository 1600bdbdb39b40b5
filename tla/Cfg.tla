--------------------------------- MODULE Cfg ---------------------------------
(***************************************************************************)
(* The configuration (snsd_cfg.c): /etc/nvme/snsd.conf is read once, one   *)
(* section after the other, each line by line and each line item by item,  *)
(* and the first error ends the program.  What was read decides which      *)
(* ports are served in which network (snsd_mgt.c) and the options of every *)
(* controller (snsd_conn_nvme.c).                                          *)
(*                                                                         *)
(* A physical line of the file is [comment, bracket, items]: whether it    *)
(* starts with a semicolon, the name in square brackets on it ("" without  *)
(* one), and the items after the bracket, or of the whole line.  An item   *)
(* is an option, written with or without --, and its value; text that is   *)
(* no item has an option that does not exist.                              *)
(***************************************************************************)
EXTENDS Integers, Sequences, FiniteSets, FiniteSetsExt, SequencesExt

CONSTANTS
  File,       \* contents the configuration file may have
  Ipv4,       \* IPv4 addresses, in the one form that inet_pton accepts
  Ipv6,       \* IPv6 addresses
  Unknown,    \* <<option, value>> pairs the NVMe driver does not support
  SavedNqn,   \* hostnqn of /etc/nvme/hostnqn, read or generated
  SNSD_NVME_RDMA_TRSVCID

ASSUME CfgAssumption ==
  /\ "any" \notin Ipv4 \cup Ipv6 /\ Ipv4 \cap Ipv6 = {}
  /\ SavedNqn # <<>>
  /\ \A f \in File : f \in Seq(ToSet(f))
  /\ \A f \in File : \A i \in DOMAIN f :
       /\ f[i].comment \in BOOLEAN /\ f[i].bracket \in STRING
       /\ f[i].items \in Seq(ToSet(f[i].items))
       /\ \A j \in DOMAIN f[i].items : f[i].items[j].option \in STRING

Mode     == {"SW", "DC"}
Section  == Mode \cup {"BASE"}
Protocol == {"roce", "tcp", "iscsi"}

(* command_line_options and base_command_line_options.  queue_size stands  *)
(* for all options that only the driver checks.                            *)
AddressOption == {"host_traddr", "traddr"}
DriverOption  == {"trsvcid", "queue_size", "ctrl_loss_tmo"}
Unsupported   == {"nqn", "hdr_digest"}
Options(section) ==
  DriverOption \cup Unsupported \cup {"hostnqn", "protocol"} \cup
    (IF section = "BASE" THEN {"restrain_time"} ELSE AddressOption)

(* The necessary options of a section.                                     *)
Necessary(section) ==
  CASE section = "SW"   -> {"host_traddr", "protocol"}
    [] section = "DC"   -> {"host_traddr", "traddr", "protocol"}
    [] section = "BASE" -> {}

(* An option that has its default, "invalid", -1 or 0, is not set: a line  *)
(* is the function from the options that are set to their values.          *)
Default == <<>>
With(line, item) ==
  [o \in DOMAIN line \cup {item.option} |-> IF o = item.option THEN item.value ELSE line[o]]

VARIABLES
  file,          \* the configuration file
  stage,         \* the section being read, or where snsd_cfg_init is after
  step,          \* what is next in the section: "load", "line" or "item"
  rest,          \* lines of the section, and items of the first, not read
  cfg,           \* the line being read
  base_cfg,      \* the BASE section
  sw_info_list, dc_info_list,
  anyflag,       \* some SW line is for any host address
  snsd_hostnqn,  \* hostnqn of controllers whose line gives none
  upset          \* memory, a read or a write has failed

loading == <<stage, step, rest, cfg>>
infos   == <<sw_info_list, dc_info_list>>
vars    == <<file, loading, base_cfg, infos, anyflag, snsd_hostnqn, upset>>

Init ==
  /\ file \in File
  /\ stage = "BASE" /\ step = "load" /\ rest = <<>> /\ cfg = Default
  /\ base_cfg = Default
  /\ sw_info_list = <<>> /\ dc_info_list = <<>>
  /\ anyflag = FALSE
  /\ snsd_hostnqn = <<>>
  /\ upset = FALSE
-----------------------------------------------------------------------------
(* An error: what was read is freed, the program ends.                     *)
Fail ==
  /\ stage' = "failed"
  /\ sw_info_list' = <<>> /\ dc_info_list' = <<>>
  /\ UNCHANGED <<file, step, rest, cfg, base_cfg, anyflag>>

(* snsd_find_section: the first '[' that is followed by the name and ']',  *)
(* wherever it stands.                                                     *)
Found(name) == {i \in DOMAIN file : file[i].bracket = name}

(* snsd_read_section: up to the next '[' or the end of the file.           *)
End(i) == Min({j \in i + 1 .. Len(file) : file[j].bracket # ""} \cup {Len(file) + 1})

(* The lines that are not empty, in their order.                           *)
NonEmpty(lines) ==
  LET kept[n \in 0 .. Len(lines)] ==
        IF n = 0 THEN <<>>
        ELSE IF lines[n] = <<>> THEN kept[n - 1] ELSE Append(kept[n - 1], lines[n])
  IN  kept[Len(lines)]

(* snsd_skip_invalid_comment passes over comments and empty lines; of a    *)
(* comment that holds the name, the text after it is not skipped.          *)
Text(i, j) == IF j > i /\ file[j].comment THEN <<>> ELSE file[j].items
Body(i)    == NonEmpty([n \in 1 .. End(i) - i |-> Text(i, i + n - 1)])

snsd_section_load ==
  /\ stage \in Section /\ step = "load"
  /\ \/ /\ Found(stage) = {}
        /\ Fail /\ UNCHANGED <<snsd_hostnqn, upset>>
     \/ /\ Found(stage) # {}
        /\ rest' = Body(Min(Found(stage)))
        /\ step' = "line"
        /\ UNCHANGED <<file, stage, cfg, base_cfg, infos, anyflag, snsd_hostnqn, upset>>

(* Fault: a line starts with what the line before it has set.              *)
snsd_init_cfg_Kept ==
  /\ stage \in Section /\ step = "line" /\ rest # <<>>
  /\ step' = "item"
  /\ UNCHANGED <<file, stage, rest, cfg, base_cfg, infos, anyflag, snsd_hostnqn, upset>>

(* snsd_get_format_info: each line starts with the defaults.               *)
snsd_init_cfg ==
  /\ stage \in Section /\ step = "line" /\ rest # <<>>
  /\ cfg' = Default
  /\ step' = "item"
  /\ UNCHANGED <<file, stage, rest, base_cfg, infos, anyflag, snsd_hostnqn, upset>>

(* snsd_nvme_para_validity_test and its variant for options without value: *)
(* the driver is asked for a controller with the option.  Only its answer  *)
(* that it does not know the option counts, not that there is no target.   *)
para_validity_test(item) == <<item.option, item.value>> \notin Unknown

(* check_validity of the options.                                          *)
Valid(section, item) ==
  CASE item.option \in AddressOption -> item.value \in {"any"} \cup Ipv4 \cup Ipv6
    [] item.option = "protocol"      -> section # "BASE" /\ item.value \in Protocol
    [] item.option \in Unsupported   -> FALSE
    [] item.option \in DriverOption  -> para_validity_test(item)
    [] OTHER                         -> TRUE

(* snsd_check_base_hostnqn_validity copies the characters of the value,    *)
(* not its end, over what is there.                                        *)
Overlay(old, new) == new \o SubSeq(old, Len(new) + 1, Len(old))

snsd_save_one_item ==
  LET item == Head(Head(rest))
  IN  /\ stage \in Section /\ step = "item" /\ Head(rest) # <<>>
      /\ \/ /\ item.option \notin Options(stage) \/ ~Valid(stage, item)
            /\ Fail /\ UNCHANGED <<snsd_hostnqn, upset>>
         \/ /\ item.option \in Options(stage) /\ Valid(stage, item)
            /\ IF stage = "BASE"
               THEN base_cfg' = With(base_cfg, item) /\ UNCHANGED cfg
               ELSE cfg' = With(cfg, item) /\ UNCHANGED base_cfg
            /\ snsd_hostnqn' = IF stage = "BASE" /\ item.option = "hostnqn"
                               THEN Overlay(snsd_hostnqn, item.value) ELSE snsd_hostnqn
            /\ rest' = [rest EXCEPT ![1] = Tail(@)]
            /\ UNCHANGED <<file, stage, step, infos, anyflag, upset>>

(* Fault: the necessary options of DC are required of no line.             *)
check_necessary_Sw(section) == section # "BASE" => Necessary("SW") \subseteq DOMAIN cfg

check_necessary(section) == Necessary(section) \subseteq DOMAIN cfg

(* The end of a line: it becomes an entry of its list; a line of BASE has  *)
(* gone into base_cfg already.                                             *)
snsd_add_one_cfg ==
  /\ stage \in Section /\ step = "item" /\ Head(rest) = <<>>
  /\ \/ /\ ~check_necessary(stage)
        /\ Fail /\ UNCHANGED <<snsd_hostnqn, upset>>
     \/ /\ check_necessary(stage)
        /\ sw_info_list' = IF stage = "SW" THEN Append(sw_info_list, cfg) ELSE sw_info_list
        /\ dc_info_list' = IF stage = "DC" THEN Append(dc_info_list, cfg) ELSE dc_info_list
        /\ anyflag' = (anyflag \/ (stage = "SW" /\ cfg.host_traddr = "any"))
        /\ rest' = Tail(rest)
        /\ step' = "line"
        /\ UNCHANGED <<file, stage, cfg, base_cfg, snsd_hostnqn, upset>>

section_end ==
  /\ stage \in Section /\ step = "line" /\ rest = <<>>
  /\ stage' = CASE stage = "BASE" -> "SW" [] stage = "SW" -> "DC" [] stage = "DC" -> "hostnqn"
  /\ step' = "load"
  /\ UNCHANGED <<file, rest, cfg, base_cfg, infos, anyflag, snsd_hostnqn, upset>>

(* snsd_hostnqn_init: without one in BASE, that of /etc/nvme/hostnqn.      *)
snsd_hostnqn_init ==
  /\ stage = "hostnqn"
  /\ snsd_hostnqn' = IF snsd_hostnqn = <<>> THEN SavedNqn ELSE snsd_hostnqn
  /\ stage' = "conflict"
  /\ UNCHANGED <<file, step, rest, cfg, base_cfg, infos, anyflag, upset>>

(* snsd_check_single: any host only alone, and no host twice.  Its inner   *)
(* loop starts behind the entry and runs round to it, so that it compares  *)
(* in both directions; on the way it takes the head of the list for an     *)
(* entry and reads memory behind it, which holds no address at this time.  *)
check_single(list, mode) ==
  \A i \in DOMAIN list :
    /\ anyflag /\ mode = "SW" => list[i].host_traddr = "any"
    /\ \A j \in DOMAIN list \ {i} : list[i].host_traddr # list[j].host_traddr

(* Fault: the second network is not compared with the first.               *)
snsd_check_conflict_Single ==
  check_single(sw_info_list, "SW") /\ check_single(dc_info_list, "DC")

snsd_check_conflict ==
  /\ check_single(sw_info_list, "SW") /\ check_single(dc_info_list, "DC")
  /\ \A s \in ToSet(sw_info_list), d \in ToSet(dc_info_list) : s.host_traddr # d.host_traddr

cfg_init_end ==
  /\ stage = "conflict"
  /\ \/ /\ ~snsd_check_conflict
        /\ Fail /\ UNCHANGED <<snsd_hostnqn, upset>>
     \/ /\ snsd_check_conflict
        /\ stage' = "ready"
        /\ UNCHANGED <<file, step, rest, cfg, base_cfg, infos, anyflag, snsd_hostnqn, upset>>

(* Memory, the configuration file or the hostnqn file fails the program.   *)
system_fails ==
  /\ stage \in Section \cup {"hostnqn"}
  /\ upset' = TRUE
  /\ Fail /\ UNCHANGED snsd_hostnqn

(* main gives up later in its start: snsd_cfg_exit.                        *)
snsd_cfg_exit ==
  /\ stage = "ready"
  /\ stage' = "exit"
  /\ sw_info_list' = <<>> /\ dc_info_list' = <<>>
  /\ UNCHANGED <<file, step, rest, cfg, base_cfg, anyflag, snsd_hostnqn, upset>>

Next ==
  \/ snsd_section_load \/ snsd_init_cfg \/ snsd_save_one_item \/ snsd_add_one_cfg \/ section_end
  \/ snsd_hostnqn_init \/ cfg_init_end
  \/ system_fails \/ snsd_cfg_exit

Spec == Init /\ [][Next]_vars
-----------------------------------------------------------------------------
(* What the lists are used for, once they are read.                        *)
NetCfg(mode) == IF mode = "SW" THEN sw_info_list ELSE dc_info_list

(* snsd_check_and_fill: does an entry serve the port with address ip?      *)
Serves(entry, ip, mode) ==
  \/ anyflag /\ mode = "SW"
  \/ /\ entry.host_traddr = ip
     /\ mode = "DC" => entry.traddr \in Ipv4

Serving(mode, ip) == {i \in DOMAIN NetCfg(mode) : Serves(NetCfg(mode)[i], ip, mode)}

(* snsd_dealwith_cfg: what a served port takes from its first entry.       *)
PortInfo(mode, ip) ==
  LET e == NetCfg(mode)[Min(Serving(mode, ip))]
  IN  [protocol |-> e.protocol, tgtip |-> IF mode = "DC" THEN e.traddr ELSE "none"]

(* snsd_protocol_handle: only RoCE is supported.                           *)
Served(mode, ip) == Serving(mode, ip) # {} /\ PortInfo(mode, ip).protocol = "roce"

(* snsd_find_sw_info and snsd_find_dc_info, for a connection of the port:  *)
(* to its target, or to one a notification names.                          *)
Lookup(mode, ip) ==
  LET p == PortInfo(mode, ip)
      list == NetCfg(mode)
  IN  {i \in DOMAIN list :
         \/ mode = "SW" /\ anyflag
         \/ /\ list[i].host_traddr = ip /\ list[i].protocol = p.protocol
            /\ mode = "DC" => list[i].traddr = p.tgtip}

(* ctrl_loss_tmo has a default of its own, the others have the driver's.   *)
Fallback(o) == IF o = "ctrl_loss_tmo" THEN "1800" ELSE "none"

(* Fault: the options of BASE come before those of the line.               *)
Option_BaseFirst(mode, ip, o) ==
  LET e == NetCfg(mode)[Min(Lookup(mode, ip))]
  IN  CASE o \in DOMAIN base_cfg -> base_cfg[o]
        [] o \notin DOMAIN base_cfg /\ o \in DOMAIN e -> e[o]
        [] OTHER -> IF o = "hostnqn" THEN snsd_hostnqn ELSE Fallback(o)

(* snsd_nvme_fill_arg: an option of the controller, "none" when it is left *)
(* to the driver.                                                          *)
Option(mode, ip, o) ==
  LET e == NetCfg(mode)[Min(Lookup(mode, ip))]
  IN  CASE o \in DOMAIN e -> e[o]
        [] o \notin DOMAIN e /\ o = "hostnqn" -> snsd_hostnqn
        [] o \notin DOMAIN e /\ o # "hostnqn" /\ o \in DOMAIN base_cfg -> base_cfg[o]
        [] OTHER -> Fallback(o)

(* direct_port_handle gives no portid, so that the target's service is     *)
(* snsd_nvme_ctx_nessary_init's.                                           *)
Service(ip) == SNSD_NVME_RDMA_TRSVCID
-----------------------------------------------------------------------------
(* The file as snsd.conf describes it: a comment is one line that          *)
(* starts with a semicolon; a section is what stands after its heading, up *)
(* to the next one; each line is one configuration; the last of several    *)
(* values counts.                                                          *)
Heading(name)  == {i \in DOMAIN file : ~file[i].comment /\ file[i].bracket = name}
HeadingEnd(i)  ==
  Min({j \in i + 1 .. Len(file) : ~file[j].comment /\ file[j].bracket # ""} \cup {Len(file) + 1})
Written(name)  ==
  LET i == Min(Heading(name))
  IN  NonEmpty([n \in 1 .. HeadingEnd(i) - i |->
                  LET line == file[i + n - 1]
                  IN  IF line.comment THEN <<>> ELSE line.items])
Given(items)   == {items[i].option : i \in DOMAIN items}
LastOf(items, o) == items[Max({i \in DOMAIN items : items[i].option = o})].value
Reading(items) == [o \in Given(items) |-> LastOf(items, o)]

(* The same of several lines together.                                     *)
GivenIn(lines)   == UNION {Given(lines[i]) : i \in DOMAIN lines}
LastIn(lines, o) == LastOf(lines[Max({i \in DOMAIN lines : o \in Given(lines[i])})], o)
Together(lines)  == [o \in GivenIn(lines) |-> LastIn(lines, o)]

Hosts == UNION {{m} \X DOMAIN Written(m) : m \in Mode}
HostAt(h) == LastOf(Written(h[1])[h[2]], "host_traddr")

(* What snsd.conf and README.md say a section may hold, apart from the     *)
(* tables of the code: the options, the mandatory ones among them, and     *)
(* their values.  Whether a tuning option is supported is the driver's     *)
(* word; IPv6 addresses are "not supported".                               *)
Tuning == {"trsvcid", "queue_size", "ctrl_loss_tmo"}
Mandatory(section) ==
  CASE section = "SW"   -> {"host_traddr", "protocol"}
    [] section = "DC"   -> {"host_traddr", "traddr", "protocol"}
    [] section = "BASE" -> {}
Supported(section) ==
  Mandatory(section) \cup Tuning \cup {"hostnqn", "hdr_digest"} \cup
    (IF section = "BASE" THEN {"restrain_time", "standard"} ELSE {})

Documented(section, item) ==
  /\ item.option \in Supported(section)
  /\ item.option \in Tuning => <<item.option, item.value>> \notin Unknown
  /\ item.option = "protocol" =>
       item.value \in {"RoCE", "TCP", "iSCSI"} \cup {"roce", "tcp", "iscsi"}
  /\ item.option = "traddr" => item.value \in Ipv4
  /\ item.option = "host_traddr" =>
       item.value \in Ipv4 \/ (section = "SW" /\ item.value = "any")

(* Where code and documentation disagree about an item: documented and     *)
(* refused, or accepted without being documented.                          *)
Disputed(section, item) ==
  \/ item.option = "hdr_digest"
  \/ section = "BASE" /\ item.option = "standard"
  \/ section # "BASE" /\ item.option = "protocol" /\ item.value \in {"RoCE", "TCP", "iSCSI"}
  \/ section # "BASE" /\ item.option \in AddressOption /\ item.value \in Ipv6
  \/ section # "BASE" /\ item.option = "traddr" /\ item.value = "any"
  \/ section = "SW" /\ item.option = "traddr" /\ item.value \in Ipv4
  \/ section = "DC" /\ item.option = "host_traddr" /\ item.value = "any"

Undisputed ==
  \A s \in Section : Heading(s) # {} =>
    \A i \in DOMAIN Written(s) : \A j \in DOMAIN Written(s)[i] :
      ~Disputed(s, Written(s)[i][j])

(* A file that is to be accepted.                                          *)
WellFormed ==
  /\ \A s \in Section :
       /\ Heading(s) # {}
       /\ \A i \in DOMAIN Written(s) :
            /\ Mandatory(s) \subseteq Given(Written(s)[i])
            /\ \A j \in DOMAIN Written(s)[i] : Documented(s, Written(s)[i][j])
  /\ \A h, k \in Hosts : h # k => HostAt(h) # HostAt(k)
  /\ \A h, k \in Hosts : h[1] = "SW" /\ k[1] = "SW" /\ HostAt(h) = "any" => h = k

(* Types of the lists and of what is left to read.                         *)
TypeOK ==
  /\ stage \in Section \cup {"hostnqn", "conflict", "ready", "failed", "exit"}
  /\ step \in {"load", "line", "item"}
  /\ \A m \in Mode : \A e \in ToSet(NetCfg(m)) :
       /\ Necessary(m) \subseteq DOMAIN e /\ DOMAIN e \subseteq Options(m)
       /\ e.protocol \in Protocol
  /\ step = "item" => rest # <<>>

(* "--traddr ... not supported by the SW field": what is not documented is *)
(* refused.                                                                *)
AcceptedIsWellFormed == stage = "ready" => WellFormed

(* "The following parameters are supported": what is documented is         *)
(* accepted.                                                               *)
WellFormedIsAccepted == stage = "failed" => ~WellFormed \/ upset

(* Exactly the well-formed files are accepted, whatever order their lines, *)
(* items and sections have, as long as they hold no item about which the   *)
(* code and the documentation disagree: snsd_cfg_init refuses a file with  *)
(* an error in any place or a conflict of any two lines, and no other.     *)
AcceptedIffWellFormed == Undisputed => AcceptedIsWellFormed /\ WellFormedIsAccepted

(* "Each line indicates a complete connection configuration": the lists    *)
(* are the lines of the file, none dropped or doubled, each with its own   *)
(* options and nothing of another line.                                    *)
LinesExact ==
  stage = "ready" =>
    /\ \A m \in Mode :
         NetCfg(m) = [i \in DOMAIN Written(m) |-> Reading(Written(m)[i])]
    /\ base_cfg = Together(Written("BASE"))

(* The line of a network that is for a host address.                       *)
LineFor(mode, ip) ==
  {i \in DOMAIN Written(mode) : LastOf(Written(mode)[i], "host_traddr") \in {ip, "any"}}

(* Every port that is served finds the line that serves it again when a    *)
(* controller is created (snsd_nvme_build_options uses the entry without a *)
(* test), and the options of that line take precedence over BASE.          *)
OwnOptions ==
  stage = "ready" =>
    \A m \in Mode : \A ip \in Ipv4 : \A o \in {"hostnqn", "queue_size", "ctrl_loss_tmo"} :
      Served(m, ip) =>
        /\ Lookup(m, ip) # {}
        /\ \E i \in LineFor(m, ip) :
             LET line == Reading(Written(m)[i])
                 base == Together(Written("BASE"))
             IN  Option(m, ip, o) =
                   CASE o \in DOMAIN line -> line[o]
                     [] o \notin DOMAIN line /\ o \in DOMAIN base -> base[o]
                     [] OTHER -> IF o = "hostnqn" THEN SavedNqn ELSE Fallback(o)

(* snsd_check_conflict: "one host ip only vest in one network(sw/dc)".     *)
OneNetwork ==
  stage = "ready" => \A ip \in Ipv4 : ~(Served("SW", ip) /\ Served("DC", ip))

(* "--trsvcid Specifies the port number of the TGT": a directly connected  *)
(* port connects to the service its line names.                            *)
TargetPort ==
  stage = "ready" =>
    \A ip \in Ipv4 : \A i \in Serving("DC", ip) :
      "trsvcid" \in DOMAIN dc_info_list[i] /\ Served("DC", ip)
        => Service(ip) = dc_info_list[i].trsvcid
=============================================================================
