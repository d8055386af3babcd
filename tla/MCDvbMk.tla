------------------------------- MODULE MCDvbMk -------------------------------
EXTENDS DvbMk

Ln(k, v, d) == [k |-> k, v |-> v, d |-> d]

\* Device names: DVB_USB_A, and DVB_USB_A_R, which has DVB_USB_A as prefix
\* (as DVB_USB_AF9005_REMOTE has DVB_USB_AF9005).
DevA == <<"DVB_USB", "_A">>
DevAR == <<"DVB_USB", "_A", "_R">>

\* A token after '=': its stem, or "" for one under 3 characters.
Tok(s, fw) == [dir |-> "", s |-> s, fw |-> fw]
ML(text, stems) == [text |-> text, objs |-> [n \in DOMAIN stems |-> Tok(stems[n], FALSE)]]
FW(toks) == [text |-> <<"    ", ".firmware", " = ">>, objs |-> toks]

\* obj-$(CONFIG_DVB_USB_A) += dvb-usb-a.o, dvb-usb-a-objs = a.o a-fe.o, and
\* the same for A_R.
MCUsbMakefile ==
    << ML(<<"dvb-usb-a", "-objs">>, <<"", "a", "a-fe">>),
       ML(<<"obj-$(", "CONFIG_", "DVB_USB", "_A", ")">>, <<"", "dvb-usb-a">>),
       ML(<<"dvb-usb-a-r", "-objs">>, <<"", "a-r">>),
       ML(<<"obj-$(", "CONFIG_", "DVB_USB", "_A", "_R", ")">>, <<"", "dvb-usb-a-r">>) >>

MCTunerMakefile == << ML(<<"obj-$(", "CONFIG_", "MEDIA", "_T", ")">>, <<"", "t">>) >>

\* A frontend F, and F2 whose name has F's as prefix.
MCFrontendMakefile ==
    << ML(<<"obj-$(", "CONFIG_", "DVB", "_F", ")">>, <<"", "f">>),
       ML(<<"obj-$(", "CONFIG_", "DVB", "_F", "2", ")">>, <<"", "f2">>) >>

\* a.c names a.fw for two devices and a macro for a third; a-fe.c has no
\* firmware line; a-r.c names a.fw and r.fw.
MCSources ==
    [c \in {"a", "a-fe", "a-r"} |->
        CASE c = "a" -> << FW(<<Tok("", FALSE), Tok("a.fw", TRUE)>>),
                           FW(<<Tok("", FALSE), Tok("A_FIRMWARE", FALSE)>>),
                           FW(<<Tok("", FALSE), Tok("a.fw", TRUE)>>) >>
          [] c = "a-fe" -> << ML(<<"static int">>, <<"", "0;">>) >>
          [] c = "a-r" -> << FW(<<Tok("", FALSE), Tok("a.fw", TRUE)>>),
                             FW(<<Tok("", FALSE), Tok("r.fw", TRUE)>>) >>]

\* Descriptions with parentheses in the order the loop expects, unbalanced
\* ones, and none.
GoodDescs == {<<"a">>, <<"(", "a", ")">>, <<"a", ")">>, <<"(", "a", ")", "(", ")">>}

\* A description where ')' comes before '('.
BadDescs == {<<")", "(">>}

Body(descs, mods) ==
    {Ln("config", DevAR, <<>>), Ln("other", "", <<>>)}
    \cup {Ln("tristate", "", d) : d \in descs}
    \cup {Ln("select", m, <<>>) : m \in mods}
    \cup {Ln("depends", v, <<>>) : v \in {"EXPERIMENTAL", "X"}}

\* A first config line (DVB_USB or a device), then up to n more lines.
Files(descs, mods, n) ==
    {<<Ln("config", c, <<>>)>> \o rest :
        c \in {DvbUsb, DevA}, rest \in BoundedSeq(Body(descs, mods), n)}

MCKconfigs == Files(GoodDescs, {<<"MEDIA", "_T">>, <<"DVB", "_F">>, <<"OTHER">>}, 3)
MCKconfigsParens == Files(GoodDescs \cup BadDescs, {<<"DVB", "_F">>}, 2)
====
