---------------------------- MODULE StartupClaims ----------------------------
(* What the code's own comments and names say of the logger's output and     *)
(* Startup does not keep.                                                    *)
EXTENDS MCStartup

(* config.go:80 sets up the logger "no_log" over os.DevNull when the console *)
(* is not enabled, and logger.go:255-257 has the output as one of New's      *)
(* arguments: with the console off no line of the log reaches the terminal.  *)
DisabledIsSilent ==
    ~conf.Console => \A i \in 1 .. Len(lines) : lines[i].out = "devnull"
=============================================================================
