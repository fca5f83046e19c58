------------------------------- MODULE BootCfg -------------------------------
(***************************************************************************)
(* The rewrite of an image's boot.cfg for one machine (internal/boot).     *)
(* A file is a sequence of lines, a line a key and the words of its value; *)
(* of a word, its text, its argument and whether it has a path separator.  *)
(* The patterns of the code match anywhere in a line; here cdromBoot is a   *)
(* whole word, kernelopt and prefix are whole keys, as in the files ESXi    *)
(* images ship.                                                            *)
(***************************************************************************)
EXTENDS SequencesExt

CONSTANT NoWord     \* no argument, no vlan, no file

Word(text) == [text |-> text, arg |-> NoWord, slash |-> FALSE]
Path(text) == [text |-> text, arg |-> NoWord, slash |-> TRUE]
Opt(name, value) == [text |-> name, arg |-> value, slash |-> FALSE]
Line(key, words) == [key |-> key, words |-> words]

\* A file as an image ships it: what a word says is all in its text.
FileWord == [text : STRING, arg : {NoWord}, slash : BOOLEAN]
FileLine == [key : STRING, words : Seq(FileWord)]
IsFile(src) == src \in Seq(FileLine)

MapWords(file, Op(_)) ==
    [i \in DOMAIN file |-> [file[i] EXCEPT !.words = Op(@)]]

Flat(words) == [j \in DOMAIN words |-> [words[j] EXCEPT !.slash = FALSE]]
pathSeparator(file) == MapWords(file, Flat)

\* The text goes, the separators around it stay.
WithoutCdrom(words) ==
    [j \in DOMAIN words |-> [words[j] EXCEPT !.text = IF @ = "cdromBoot" THEN "" ELSE @]]
cdromBoot(file) == MapWords(file, WithoutCdrom)

Keyed(file, key) == {i \in DOMAIN file : file[i].key = key}
Earliest(lines) == CHOOSE i \in lines : \A k \in lines : i <= k

\* Mutant: the pattern also matches the kernel line.
AppendToKernelLines(file, words) ==
    LET hit == Keyed(file, "kernelopt") \cup Keyed(file, "kernel") IN
    [i \in DOMAIN file |->
        IF i \in hit
        THEN [file[Earliest(hit)] EXCEPT !.words = @ \o words]
        ELSE file[i]]

\* Every kernelopt line becomes the first one with the new words at its end.
appendKernelOpt(file, words) ==
    [i \in DOMAIN file |->
        IF file[i].key = "kernelopt"
        THEN [file[Earliest(Keyed(file, "kernelopt"))] EXCEPT !.words = @ \o words]
        ELSE file[i]]

\* The value goes in front of what the line already has, nothing in the file as shipped.
WithPrefix(file, prefix) ==
    [i \in DOMAIN file |->
        IF file[i].key = "prefix" THEN Line("prefix", <<prefix>> \o file[i].words) ELSE file[i]]

KickstartURL == Path("ks")
HTTPPrefix == Path("https esx")
TFTPPrefix == Word("image directory")

\* The words added for a machine, in the order of the calls of appendKernelOpt.
Added(p) ==
    <<KickstartURL, Opt("netdevice", p.mac), Opt("ip", p.ip), Opt("netmask", p.netmask),
      Opt("gateway", p.gateway)>>
    \o (IF p.vlan # NoWord THEN <<Opt("vlanid", p.vlan)>> ELSE <<>>)
    \o (IF p.allowLegacyCPU THEN <<Word("allowLegacyCPU")>> ELSE <<>>)

\* Mutant: separators are stripped from what was added, too.
StrippedLast(src, p) ==
    pathSeparator(WithPrefix(appendKernelOpt(cdromBoot(src), Added(p)), p.prefix))

RenderConfig(src, p) ==
    WithPrefix(appendKernelOpt(cdromBoot(pathSeparator(src)), Added(p)), p.prefix)
=============================================================================
