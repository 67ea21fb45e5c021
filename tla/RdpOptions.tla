----------------------------- MODULE RdpOptions -----------------------------
(***************************************************************************)
(* The RDP options shared by every command that moves files                *)
(* (src/csh_defaults.c and the tail of src/vmem_client_slash_ftp.c).       *)
(*                                                                         *)
(* There are three sets of options: the defaults (rdp_dfl), the options of *)
(* the command being parsed (rdp_tmp), and the set csp itself uses         *)
(* (csp_rdp_set_opt).  The six options of a set always travel together and *)
(* are abstracted to the window size.                                      *)
(***************************************************************************)
EXTENDS Naturals

CONSTANT Windows   (* values of -w on a command line; NotGiven stands for none *)

NotGiven   == 0
DflWindow  == 3

ASSUME WindowsAssumption == Windows \subseteq Nat

VARIABLES
  rdp_dfl,      (* rdp_dfl_window: what `rdp opt` sets                     *)
  rdp_tmp,      (* rdp_tmp_window: what the command line asks for          *)
  rdp_active    (* what csp uses for the next connection                   *)

rdpVars == <<rdp_dfl, rdp_tmp, rdp_active>>

(* main() passes the defaults to csp before the first command.             *)
RdpInit == rdp_dfl = DflWindow /\ rdp_tmp = 0 /\ rdp_active = DflWindow

RdpTypeOK == rdp_dfl \in Nat /\ rdp_tmp \in Nat /\ rdp_active \in Nat

Chosen(given, otherwise) == IF given = NotGiven THEN otherwise ELSE given

(* rdp_opt_add, then the option parser: tmp is the default overridden by   *)
(* what is given.                                                          *)
rdp_opt_add(given) == rdp_tmp' = Chosen(given, rdp_dfl)

(* rdp_opt_set: csp gets the options of this command.  (A name ending in   *)
(* Mut is a deliberately wrong variant.)                                   *)
rdp_opt_setMut == rdp_active' = rdp_active
rdp_opt_set == rdp_active' = rdp_tmp'

(* rdp_opt_reset: csp gets the defaults back.                              *)
rdp_opt_reset == rdp_active' = rdp_dfl

(* `rdp opt`: the defaults are first overwritten by whatever csp uses at   *)
(* the moment, then by the options given; csp gets them unless parsing     *)
(* failed (after the overwriting).                                         *)
vmem_client_rdp_options(given, parsed) ==
  /\ rdp_dfl' = Chosen(given, rdp_active)
  /\ rdp_active' = IF parsed THEN rdp_dfl' ELSE rdp_active
  /\ rdp_tmp' = rdp_tmp
=============================================================================
