------------------------------- MODULE MCSoLoad -------------------------------
(***************************************************************************)
(* A process for SoLoad: the platform's loader libraries, an application   *)
(* library that comes with another and can load it, and libraphael.so in a *)
(* directory with the application library's name; libold.so is no ELF that *)
(* xHook reads.                                                            *)
(***************************************************************************)
EXTENDS SoLoad

MCImages == {"libdl.so", "libnativeloader.so", "libraphael.so", "libapp.so", "libdep.so", "libold.so"}
MCPreloaded == <<"libdl.so", "libraphael.so", "libnativeloader.so", "libold.so">>
MCImports == [x \in MCImages |->
    CASE x \in {"libdl.so", "libnativeloader.so"} -> {"dlopen", "android_dlopen_ext"}
      [] x = "libapp.so" -> {"dlopen"}
      [] OTHER -> {}]
MCNeeds == [x \in MCImages |-> IF x = "libapp.so" THEN {"libdep.so"} ELSE {}]
MCSameName == {<<x, x>> : x \in MCImages} \cup {<<"libraphael.so", "libapp.so">>}
MCFocuses == {[path |-> {"libapp.so", "libdep.so", "libold.so"}, file |-> {"libapp.so", "libdep.so"}],
              [path |-> {"libnativeloader.so", "libdep.so"}, file |-> {"libapp.so"}]}
===============================================================================
