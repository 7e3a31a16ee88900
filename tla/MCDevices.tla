------------------------------ MODULE MCDevices ------------------------------
(* One instance of every module in each of the configurations that make a    *)
(* difference, the ones Init refuses included.                              *)
EXTENDS Devices

MCInstances ==
  [kind : {"button"}, activeLow : BOOLEAN]
  \cup [kind : {"switch"}, activeLow : BOOLEAN, initial : {"on", "unknown"}]
  \cup [kind : {"gude", "intellinet"}, outlet : {-1, 0, 1}, host : {"url"}, login : {"both"}]
  \cup [kind : {"gude"}, outlet : {0}, host : {"none", "bare", "url"}, login : {"none", "partial"}]
  \cup [kind : {"tasmota"}, outlet : {0, 2}, host : {"none", "bare"}, login : {"partial"}]
  \cup [kind : {"otherVendor"}, outlet : {0}, host : {"url"}, login : {"none"}]
  \cup [kind : {"ipmi"}, host : {"none", "name"}]
  \cup [kind : {"shell"}]
  \cup [kind : {"flash"}, tool : {"flashrom", "other"}, programmer : BOOLEAN]
  \cup [kind : {"flash"}, tool : {"dpcmd"}, programmer : {FALSE}]
  \cup [kind : {"emulate"}, chip : BOOLEAN]
  \cup [kind : {"file"}, operation : {"upload"}, permission : {"default"},
        source : {<<"none">>, <<"s">>}, destination : {<<"none">>, <<"/", "d">>}]
  \cup [kind : {"file"}, operation : {"download"}, permission : {"default"},
        source : {<<"s">>}, destination : {<<"none">>, <<"/", "d">>}]
  \cup [kind : {"file"}, operation : {"none", "upload"}, permission : {"octal", "decimal"},
        source : {<<"s">>}, destination : {<<"/", "d">>}]
  \cup [kind : {"ssh"}, host : {"none", "name"}, login : {"none", "password", "badKey"}, hostKey : {"none", "bad"}]
  \cup [kind : {"wait"}, duration : {"none", "bad"}]

(* Paths that stay, leave and come back, with every special name.           *)
MCFilePaths ==
  {<<"a">>, <<"..", "a">>, <<"a", "..", "..", "b">>, <<"a", "..">>, <<"/", "a">>, <<".", "a">>,
   <<"..name", "a">>, <<>>}
MCDotDotNames == {"..", "..name"}
=============================================================================
