---------------------------- MODULE IpcStubsMedia ----------------------------
(* The generated Dispatch functions (include/IpcStubs.hpp) of the interfaces
   for display, sound, graphics and input: one definition per interface class,
   one element per group of commands that are laid out alike.  IpcShapes
   explains the notation. *)
EXTENDS IpcShapes

\* namespace nn::ahid
ahid_ICtrlSession == {Plain(0..12)}
ahid_IReadSession == {Plain({0})}
ahid_IServerSession == {Plain(0..3)}

\* namespace nn::ahid::hdr
ahid_hdr_ISession == {Plain(0..4)}

\* namespace nn::audio::detail
audio_detail_IAudioDebugManager == {
  On({0}, <<0, 0, 0>>, <<Data(8, 4), Data(16, 8), Copied(0)>>, <<>>),
  Plain(1..3)}
audio_detail_IAudioDevice == {
  On({0}, <<0, 0, 4>>, <<>>, <<Data(8, 4), Buffer(6, 0)>>),
  On({1}, <<0, 0, 0>>, <<Data(8, 4), Buffer(5, 0)>>, <<>>),
  On({2}, <<0, 0, 4>>, <<Buffer(5, 0)>>, <<Data(8, 4)>>),
  On({3}, <<0, 0, 0>>, <<>>, <<Buffer(6, 0)>>),
  Event({4, 11, 12}),
  Returns({5}, 4),
  On({6}, <<0, 0, 4>>, <<>>, <<Data(8, 4), Buffer(34, 0)>>),
  On({7}, <<0, 0, 0>>, <<Data(8, 4), Buffer(33, 0)>>, <<>>),
  On({8}, <<0, 0, 4>>, <<Buffer(33, 0)>>, <<Data(8, 4)>>),
  On({10}, <<0, 0, 0>>, <<>>, <<Buffer(34, 0)>>)}
audio_detail_IAudioIn == {
  Returns({0}, 4),
  Plain({1, 2}),
  On({3}, <<0, 0, 0>>, <<Data(8, 8), Buffer(5, 0)>>, <<>>),
  Event({4}),
  On({5}, <<0, 0, 4>>, <<>>, <<Data(8, 4), Buffer(6, 0)>>),
  On({6}, <<0, 0, 1>>, <<Data(8, 8)>>, <<Data(8, 1)>>),
  On({7}, <<0, 0, 0>>, <<Data(8, 8), Copied(0), Buffer(5, 0)>>, <<>>),
  On({8}, <<0, 0, 0>>, <<Data(8, 8), Buffer(33, 0)>>, <<>>),
  On({9}, <<0, 0, 4>>, <<>>, <<Data(8, 4), Buffer(34, 0)>>),
  On({10}, <<0, 0, 0>>, <<Data(8, 8), Copied(0), Buffer(33, 0)>>, <<>>)}
audio_detail_IAudioInManager == {
  On({0}, <<0, 0, 4>>, <<>>, <<Data(8, 4), Buffer(6, 0)>>),
  On({1}, <<1, 0, 16>>, <<Data(8, 8), Data(16, 8), Pid, Copied(0), Buffer(5, 0)>>, <<Data(8, 16),
      Moved(0), Buffer(6, 0)>>),
  On({2, 4}, <<0, 0, 4>>, <<>>, <<Data(8, 4), Buffer(34, 0)>>),
  On({3}, <<1, 0, 16>>, <<Data(8, 8), Data(16, 8), Pid, Copied(0), Buffer(33, 0)>>, <<Data(8, 16),
      Moved(0), Buffer(34, 0)>>)}
audio_detail_IAudioInManagerForApplet == {
  On({0, 1}, <<0, 1, 0>>, <<Data(8, 8), Data(16, 8)>>, <<Copied(0)>>),
  On({2}, <<0, 0, 4>>, <<Data(8, 8)>>, <<Data(8, 4)>>),
  On({3}, <<0, 0, 0>>, <<Data(8, 4), Data(16, 8), Data(24, 8)>>, <<>>)}
audio_detail_IAudioInManagerForDebugger == {Takes({0, 1}, 8)}
audio_detail_IAudioOut == {
  Returns({0}, 4),
  Plain({1, 2}),
  On({3}, <<0, 0, 0>>, <<Data(8, 8), Buffer(5, 0)>>, <<>>),
  Event({4}),
  On({5}, <<0, 0, 4>>, <<>>, <<Data(8, 4), Buffer(6, 0)>>),
  On({6}, <<0, 0, 1>>, <<Data(8, 8)>>, <<Data(8, 1)>>),
  On({7}, <<0, 0, 0>>, <<Data(8, 8), Buffer(33, 0)>>, <<>>),
  On({8}, <<0, 0, 4>>, <<>>, <<Data(8, 4), Buffer(34, 0)>>)}
audio_detail_IAudioOutManager == {
  On({0}, <<0, 0, 4>>, <<>>, <<Data(8, 4), Buffer(6, 0)>>),
  On({1}, <<1, 0, 16>>, <<Data(8, 8), Data(16, 8), Pid, Copied(0), Buffer(5, 0)>>, <<Data(8, 16),
      Moved(0), Buffer(6, 0)>>),
  On({2}, <<0, 0, 4>>, <<>>, <<Data(8, 4), Buffer(34, 0)>>),
  On({3}, <<1, 0, 16>>, <<Data(8, 8), Data(16, 8), Pid, Copied(0), Buffer(33, 0)>>, <<Data(8, 16),
      Moved(0), Buffer(34, 0)>>)}
audio_detail_IAudioOutManagerForApplet == {
  On({0, 1}, <<0, 1, 0>>, <<Data(8, 8), Data(16, 8)>>, <<Copied(0)>>),
  On({2}, <<0, 0, 4>>, <<Data(8, 8)>>, <<Data(8, 4)>>),
  On({3}, <<0, 0, 0>>, <<Data(8, 4), Data(16, 8), Data(24, 8)>>, <<>>)}
audio_detail_IAudioOutManagerForDebugger == {Takes({0, 1}, 8)}
audio_detail_IAudioRenderer == {
  Returns((0..3) \cup {9}, 4),
  On({4}, <<0, 0, 0>>, <<Buffer(5, 0)>>, <<Buffer(6, 0), Buffer(6, 1)>>),
  Plain({5, 6, 11}),
  Event({7}),
  Takes({8}, 4),
  On({10}, <<0, 0, 0>>, <<Buffer(33, 0)>>, <<Buffer(34, 0), Buffer(34, 1)>>)}
audio_detail_IAudioRendererManager == {
  On({0}, <<1, 0, 0>>, <<Data(8, 52), Data(64, 8), Data(72, 8), Pid, Copied(0), Copied(0)>>,
      <<Moved(0)>>),
  On({1}, <<0, 0, 8>>, <<Data(8, 52)>>, <<Data(8, 8)>>),
  On({2}, <<1, 0, 0>>, <<Data(8, 8)>>, <<Moved(0)>>),
  On({3}, <<1, 0, 0>>, <<Data(8, 52), Data(64, 8), Data(72, 8), Data(80, 8), Pid, Copied(0)>>,
      <<Moved(0)>>)}
audio_detail_IAudioRendererManagerForApplet == {
  On({0, 1}, <<0, 1, 0>>, <<Data(8, 8), Data(16, 8)>>, <<Copied(0)>>),
  On({2}, <<0, 0, 4>>, <<Data(8, 8)>>, <<Data(8, 4)>>),
  On({3}, <<0, 0, 0>>, <<Data(8, 4), Data(16, 8), Data(24, 8)>>, <<>>),
  Takes({4, 5}, 8)}
audio_detail_IAudioRendererManagerForDebugger == {Takes({0, 1}, 8)}
audio_detail_IFinalOutputRecorder == {
  Returns({0}, 4),
  Plain({1, 2}),
  On({3}, <<0, 0, 0>>, <<Data(8, 8), Buffer(5, 0)>>, <<>>),
  Event({4}),
  On({5}, <<0, 0, 16>>, <<>>, <<Data(8, 4), Data(16, 8), Buffer(6, 0)>>),
  On({6}, <<0, 0, 1>>, <<Data(8, 8)>>, <<Data(8, 1)>>),
  On({7}, <<0, 0, 8>>, <<Data(8, 8)>>, <<Data(8, 8)>>),
  On({8}, <<0, 0, 0>>, <<Data(8, 8), Buffer(33, 0)>>, <<>>),
  On({9}, <<0, 0, 16>>, <<>>, <<Data(8, 4), Data(16, 8), Buffer(34, 0)>>)}
audio_detail_IFinalOutputRecorderManager == {
  On({0}, <<1, 0, 16>>, <<Data(8, 8), Data(16, 8), Copied(0)>>, <<Data(8, 16), Moved(0)>>)}
audio_detail_IFinalOutputRecorderManagerForApplet == {
  On({0, 1}, <<0, 1, 0>>, <<Data(8, 8), Data(16, 8)>>, <<Copied(0)>>)}
audio_detail_IFinalOutputRecorderManagerForDebugger == {Takes({0, 1}, 8)}

\* namespace nn::audioctrl::detail
audioctrl_detail_IAudioController == {
  On({0, 9, 13}, <<0, 0, 4>>, <<Data(8, 4)>>, <<Data(8, 4)>>),
  On({1, 10, 14}, <<0, 0, 0>>, <<Data(8, 4), Data(12, 4)>>, <<>>),
  Returns({2, 3, 8, 12, 18, 21}, 4),
  Plain({4, 6, 7, 22}),
  On({5}, <<0, 0, 0>>, <<Data(8, 1), Data(12, 4)>>, <<>>),
  Takes({11, 15, 17}, 4),
  Takes({16}, 1),
  Event({19, 20})}

\* namespace nn::cec
cec_ICecManager == {
  Plain((3..6) \cup {0}),
  On({1}, <<0, 0, 4>>, <<Data(8, 4)>>, <<Data(8, 4)>>),
  Takes({2}, 4)}

\* namespace nn::codec::detail
codec_detail_IHardwareOpusDecoder == {
  On({0, 2}, <<0, 0, 8>>, <<Buffer(5, 0)>>, <<Data(8, 4), Data(12, 4), Buffer(6, 0)>>),
  On({1, 3}, <<0, 0, 0>>, <<Buffer(5, 0)>>, <<>>)}
codec_detail_IHardwareOpusDecoderManager == {
  On({0}, <<1, 0, 0>>, <<Data(8, 8), Data(16, 4), Copied(0)>>, <<Moved(0)>>),
  On({1}, <<0, 0, 4>>, <<Data(8, 8)>>, <<Data(8, 4)>>),
  On({2}, <<1, 0, 0>>, <<Data(8, 4), Copied(0), Buffer(25, 0)>>, <<Moved(0)>>),
  On({3}, <<0, 0, 4>>, <<Buffer(25, 0)>>, <<Data(8, 4)>>)}

\* namespace nn::hid
hid_IActiveVibrationDeviceList == {Takes({0}, 4)}
hid_IAppletResource == {Opens({0})}
hid_IHidDebugServer == {
  Plain({0, 2, 10, 12, 20, 22, 30, 32, 91, 110, 112, 120, 122, 123, 130, 132, 140, 201, 202, 207}),
  Takes({1}, 24),
  On({11}, <<0, 0, 0>>, <<Buffer(5, 0)>>, <<>>),
  Takes({21}, 28),
  Takes({31}, 40),
  Takes({50, 52, 60}, 4),
  On({51}, <<0, 0, 0>>, <<Data(8, 4), Aligned(12, 28, 4)>>, <<>>),
  Takes({111, 121, 131, 203, 208}, 8),
  On({133, 135}, <<0, 0, 0>>, <<Data(8, 4), Data(12, 4), Data(16, 4), Data(24, 8), Pid>>, <<>>),
  On({134, 136}, <<0, 0, 8>>, <<Data(8, 4), Data(16, 8), Pid>>, <<Data(8, 4), Data(12, 4)>>),
  On({204}, <<0, 0, 16>>, <<>>, <<Data(8, 8), Data(16, 8)>>),
  On({205, 206}, <<0, 0, 16>>, <<Data(8, 4), Data(12, 4)>>, <<Data(8, 16)>>),
  On({209}, <<0, 0, 16>>, <<Data(8, 8)>>, <<Data(8, 16)>>),
  On({221}, <<0, 0, 0>>, <<Data(8, 4), Data(12, 4), Data(16, 8)>>, <<>>)}
hid_IHidServer == {
  On({0}, <<1, 0, 0>>, <<Data(8, 8), Pid>>, <<Moved(0)>>),
  On({1, 11, 21, 31, 103, 104, 126, 127, 300}, <<0, 0, 0>>, <<Data(8, 8), Pid>>, <<>>),
  On({40}, <<0, 1, 0>>, <<Data(8, 8)>>, <<Copied(0)>>),
  Takes({41}, 8),
  On({51, 66, 67, 72, 75, 78, 81, 91, 100, 107, 122, 124, 301, 302}, <<0, 0, 0>>, <<Data(8, 4),
      Data(16, 8), Pid>>, <<>>),
  On({55, 59}, <<0, 0, 8>>, <<>>, <<Data(8, 8), Buffer(10, 0)>>),
  Takes({56, 60, 61, 63, 64}, 4),
  On({58, 62, 65}, <<0, 1, 0>>, <<Data(8, 4)>>, <<Copied(0)>>),
  On({68, 82, 131}, <<0, 0, 1>>, <<Data(8, 4), Data(16, 8), Pid>>, <<Data(8, 1)>>),
  On({69, 132}, <<0, 0, 0>>, <<Data(8, 1), Data(12, 4), Data(16, 8), Pid>>, <<>>),
  On({70, 73}, <<0, 0, 0>>, <<Data(8, 4), Data(12, 4), Data(16, 4), Data(24, 8), Pid>>, <<>>),
  On({71, 74}, <<0, 0, 8>>, <<Data(8, 4), Data(16, 8), Pid>>, <<Data(8, 4), Data(12, 4)>>),
  On({76, 79, 125, 130}, <<0, 0, 0>>, <<Data(8, 4), Data(12, 4), Data(16, 8), Pid>>, <<>>),
  On({77, 80}, <<0, 0, 4>>, <<Data(8, 4), Data(16, 8), Pid>>, <<Data(8, 4)>>),
  On({101}, <<0, 0, 4>>, <<Data(8, 8), Pid>>, <<Data(8, 4)>>),
  On({102}, <<0, 0, 0>>, <<Data(8, 8), Pid, Buffer(9, 0)>>, <<>>),
  On({106}, <<0, 1, 0>>, <<Data(8, 4), Data(16, 8), Data(24, 8), Pid>>, <<Copied(0)>>),
  On({108, 200}, <<0, 0, 8>>, <<Data(8, 4)>>, <<Data(8, 8)>>),
  On({120, 128, 1000}, <<0, 0, 0>>, <<Data(8, 8), Data(16, 8), Pid>>, <<>>),
  On({121, 129}, <<0, 0, 8>>, <<Data(8, 8), Pid>>, <<Data(8, 8)>>),
  On({123}, <<0, 0, 0>>, <<Data(8, 4), Data(16, 8), Data(24, 8), Pid>>, <<>>),
  On({201}, <<0, 0, 0>>, <<Data(8, 4), Aligned(12, 16, 4), Data(32, 8), Pid>>, <<>>),
  On({202}, <<0, 0, 16>>, <<Data(8, 4), Data(16, 8), Pid>>, <<Data(8, 16)>>),
  Opens({203}),
  Takes({204, 401}, 1),
  Returns({205, 400}, 1),
  On({206}, <<0, 0, 0>>, <<Data(8, 8), Buffer(9, 0), Buffer(9, 1)>>, <<>>),
  On({402}, <<0, 0, 1>>, <<Data(8, 4)>>, <<Data(8, 1)>>),
  Returns({1001}, 8)}
hid_IHidSystemServer == {
  Takes((802..804) \cup {31, 301, 510, 901}, 4),
  On({101, 121, 141, 751}, <<0, 1, 0>>, <<Data(8, 8), Pid>>, <<Copied(0)>>),
  On((303..305) \cup {111, 131, 151, 900}, <<0, 0, 0>>, <<Data(8, 8), Pid>>, <<>>),
  Event({210, 540, 542, 544, 546, 702}),
  On({211, 541, 543, 703}, <<0, 0, 8>>, <<>>, <<Data(8, 8), Buffer(10, 0)>>),
  On({212, 230}, <<0, 1, 0>>, <<Data(8, 4)>>, <<Copied(0)>>),
  On({213, 231}, <<0, 0, 0>>, <<Data(8, 1), Data(12, 4), Data(16, 8), Pid>>, <<>>),
  Returns({306, 511}, 4),
  On({307}, <<0, 0, 16>>, <<Data(8, 4)>>, <<Data(8, 8), Data(16, 8)>>),
  On({311}, <<0, 0, 0>>, <<Data(8, 4), Data(12, 4), Data(16, 8), Pid>>, <<>>),
  On({321}, <<0, 0, 8>>, <<Data(8, 4)>>, <<Data(8, 8), Buffer(10, 0)>>),
  On({322, 323}, <<0, 0, 8>>, <<Data(8, 4), Data(16, 8), Pid>>, <<Data(8, 8)>>),
  Takes({500, 502, 512, 806}, 8),
  On((503..505) \cup {501}, <<0, 0, 0>>, <<Data(8, 1), Data(16, 8)>>, <<>>),
  Plain({513, 520, 521, 1000, 1006}),
  On({545}, <<0, 0, 0>>, <<Data(12, 6)>>, <<>>),
  Returns({547}, 8),
  On({700}, <<0, 0, 0>>, <<Data(8, 8), Data(16, 8), Pid>>, <<>>),
  On({800}, <<0, 0, 8>>, <<Data(8, 8)>>, <<Data(8, 8), Buffer(10, 0)>>),
  On({801}, <<0, 0, 1>>, <<Data(8, 4)>>, <<Data(8, 1)>>),
  On({805}, <<0, 0, 10>>, <<Data(8, 8)>>, <<Data(12, 6)>>),
  On(821..824, <<0, 0, 0>>, <<Data(8, 8), Data(16, 8)>>, <<>>),
  Returns({850}, 1),
  Takes({851}, 1),
  On({852, 1003}, <<0, 0, 1>>, <<Data(8, 8)>>, <<Data(8, 1)>>),
  On({1001, 1002}, <<0, 0, 16>>, <<Data(8, 8)>>, <<Data(8, 16)>>),
  On({1004, 1005}, <<0, 0, 8>>, <<Data(8, 8)>>, <<Data(8, 8)>>),
  On({1007}, <<0, 0, 4>>, <<Data(8, 8)>>, <<Data(8, 4)>>)}
hid_IHidTemporaryServer == {
  On({0}, <<0, 0, 24>>, <<Data(8, 4), Data(16, 8), Pid>>, <<Data(8, 24)>>)}

\* namespace nn::irsensor
irsensor_IIrSensorServer == {
  On({302, 303}, <<0, 0, 0>>, <<Data(8, 8), Pid>>, <<>>),
  On({304}, <<0, 1, 0>>, <<Data(8, 8), Pid>>, <<Copied(0)>>),
  On({305, 313}, <<0, 0, 0>>, <<Data(8, 4), Data(16, 8), Pid>>, <<>>),
  On({306}, <<0, 0, 0>>, <<Data(8, 4), Data(16, 8), Data(24, 32), Pid>>, <<>>),
  On({307}, <<0, 0, 0>>, <<Data(8, 4), Data(16, 8), Data(24, 40), Pid>>, <<>>),
  On({308}, <<0, 0, 0>>, <<Data(8, 4), Data(16, 8), Data(24, 24), Data(48, 8), Pid, Copied(0)>>,
      <<>>),
  On({309}, <<0, 0, 16>>, <<Data(8, 4), Data(16, 8), Pid>>, <<Data(8, 16), Buffer(6, 0)>>),
  On({310}, <<0, 0, 0>>, <<Data(8, 4), Aligned(12, 8, 4), Data(24, 8), Pid>>, <<>>),
  On({311}, <<0, 0, 4>>, <<Data(8, 4)>>, <<Data(8, 4)>>),
  On({312}, <<0, 0, 0>>, <<Data(8, 4), Aligned(12, 12, 4), Data(24, 8), Pid>>, <<>>),
  On({314}, <<0, 0, 0>>, <<Data(8, 4), Data(12, 4), Data(16, 8), Pid>>, <<>>)}
irsensor_IIrSensorSystemServer == {
  Takes({500, 502}, 8),
  On({501, 503}, <<0, 0, 0>>, <<Data(8, 1), Data(16, 8)>>, <<>>)}

\* namespace nn::lbl::detail
lbl_detail_ILblController == {
  Plain({0, 1, 4, 9, 10, 12, 13, 26, 27}),
  Takes({2, 15, 24}, 4),
  Returns({3, 5, 8, 16, 25}, 4),
  Takes({6, 7}, 8),
  Returns({11, 14, 23, 28}, 1),
  On({17}, <<0, 0, 0>>, <<Data(8, 4), Data(12, 4)>>, <<>>),
  On({18}, <<0, 0, 4>>, <<Data(8, 4)>>, <<Data(8, 4)>>),
  Takes({19, 21}, 12),
  Returns({20, 22}, 12)}

\* namespace nn::mmnv
mmnv_IRequest == {
  On({0, 2, 6}, <<0, 0, 0>>, <<Data(8, 4), Data(12, 4), Data(16, 4)>>, <<>>),
  Takes({1, 5}, 4),
  On({3, 7}, <<0, 0, 4>>, <<Data(8, 4)>>, <<Data(8, 4)>>),
  Plain({4})}

\* namespace nn::visrv::sf
visrv_sf_IApplicationDisplayService == {
  Opens(100..103),
  On({1000}, <<0, 0, 8>>, <<>>, <<Data(8, 8), Buffer(6, 0)>>),
  On({1010}, <<0, 0, 8>>, <<Data(8, 64)>>, <<Data(8, 8)>>),
  Returns({1011}, 8),
  Takes({1020, 2021, 2031}, 8),
  On({1101}, <<0, 0, 0>>, <<Data(8, 1), Data(16, 8)>>, <<>>),
  On({1102}, <<0, 0, 16>>, <<Data(8, 8)>>, <<Data(8, 8), Data(16, 8)>>),
  On({2020}, <<0, 0, 8>>, <<Data(8, 64), Data(72, 8), Data(80, 8), Pid>>, <<Data(8, 8), Buffer(6,
      0)>>),
  On({2030}, <<0, 0, 16>>, <<Data(8, 4), Data(16, 8)>>, <<Data(8, 8), Data(16, 8), Buffer(6, 0)>>),
  On({2101}, <<0, 0, 0>>, <<Data(8, 4), Data(16, 8)>>, <<>>),
  On({2450}, <<0, 0, 16>>, <<Data(8, 8), Data(16, 8), Data(24, 8), Data(32, 8), Pid>>, <<Data(8,
      8), Data(16, 8), Buffer(70, 0)>>),
  On({2451}, <<0, 0, 16>>, <<Data(8, 4), Data(12, 4), Data(16, 4), Data(20, 4), Data(24, 8),
      Data(32, 8), Data(40, 8), Data(48, 8), Pid>>, <<Data(8, 8), Data(16, 8), Buffer(70, 0)>>),
  On({2460}, <<0, 0, 16>>, <<Data(8, 8), Data(16, 8)>>, <<Data(8, 8), Data(16, 8)>>),
  On({5202, 5203}, <<1, 0, 0>>, <<Data(8, 8)>>, <<Moved(0)>>)}
visrv_sf_IApplicationRootService == {On({0}, <<1, 0, 0>>, <<Data(8, 4)>>, <<Moved(0)>>)}
visrv_sf_IManagerDisplayService == {
  On({1102}, <<0, 0, 16>>, <<Data(8, 8)>>, <<Data(8, 8), Data(16, 8)>>),
  On({2010}, <<0, 0, 8>>, <<Data(8, 4), Data(16, 8), Data(24, 8)>>, <<Data(8, 8)>>),
  Takes({2011, 2051, 2053, 2055, 2301}, 8),
  Returns({2050}, 8),
  On({2052, 2054}, <<0, 0, 8>>, <<Data(8, 8), Data(16, 8)>>, <<Data(8, 8)>>),
  On({2300, 2302}, <<0, 1, 0>>, <<Data(8, 8)>>, <<Copied(0)>>),
  On({2402}, <<0, 0, 4>>, <<Data(8, 8)>>, <<Data(8, 4)>>),
  On({4201, 4203, 4205, 6000, 6001}, <<0, 0, 0>>, <<Data(8, 4), Data(16, 8)>>, <<>>),
  On({6002, 8000}, <<0, 0, 0>>, <<Data(8, 1), Data(16, 8)>>, <<>>),
  Takes({7000}, 1),
  On({8100}, <<0, 0, 0>>, <<Data(8, 8), Data(16, 8), Data(24, 8)>>, <<>>)}
visrv_sf_IManagerRootService == {
  On({2}, <<1, 0, 0>>, <<Data(8, 4)>>, <<Moved(0)>>),
  On({3}, <<1, 0, 0>>, <<Data(8, 8), Data(16, 4)>>, <<Moved(0)>>)}
visrv_sf_ISystemDisplayService == {
  On({1200, 1202, 2204, 3202}, <<0, 0, 8>>, <<Data(8, 8)>>, <<Data(8, 8)>>),
  On({1203}, <<0, 0, 8>>, <<Data(8, 8)>>, <<Data(8, 4), Data(12, 4)>>),
  On({1204}, <<0, 0, 0>>, <<Data(8, 4), Data(12, 4), Data(16, 4), Data(20, 4), Data(24, 8)>>, <<>>),
  On({2201}, <<0, 0, 0>>, <<Data(8, 4), Data(12, 4), Data(16, 8)>>, <<>>),
  On({2203}, <<0, 0, 0>>, <<Data(8, 8), Data(16, 8), Data(24, 8)>>, <<>>),
  On({2205, 3203}, <<0, 0, 0>>, <<Data(8, 8), Data(16, 8)>>, <<>>),
  On({2207}, <<0, 0, 0>>, <<Data(8, 1), Data(16, 8)>>, <<>>),
  On({2209, 3205, 3207, 3209, 3211, 3215, 3217}, <<0, 0, 0>>, <<Data(8, 4), Data(16, 8)>>, <<>>),
  On({2312}, <<0, 0, 16>>, <<Data(8, 4), Data(16, 8)>>, <<Data(8, 8), Data(16, 8), Buffer(6, 0)>>),
  On({2400}, <<0, 0, 8>>, <<Data(8, 8), Data(16, 8), Pid>>, <<Data(8, 8), Buffer(6, 0)>>),
  Takes({2401, 2402}, 8),
  On(3000..3002, <<0, 0, 8>>, <<Data(8, 8)>>, <<Data(8, 8), Buffer(6, 0)>>),
  On({3200}, <<0, 0, 16>>, <<Data(8, 8)>>, <<Data(8, 16)>>),
  On({3201}, <<0, 0, 0>>, <<Data(8, 8), Data(16, 16)>>, <<>>),
  On({3204, 3206, 3208, 3210, 3214, 3216}, <<0, 0, 4>>, <<Data(8, 8)>>, <<Data(8, 4)>>)}
visrv_sf_ISystemRootService == {
  On({1}, <<1, 0, 0>>, <<Data(8, 4)>>, <<Moved(0)>>),
  On({3}, <<1, 0, 0>>, <<Data(8, 8), Data(16, 4)>>, <<Moved(0)>>)}

\* namespace nn::xcd::detail
xcd_detail_ISystemServer == {
  On({0, 2}, <<0, 0, 1>>, <<Data(8, 8)>>, <<Data(8, 1)>>),
  Plain((10..12) \cup (14..20) \cup {1, 3, 4}),
  Takes({5, 13}, 8),
  Returns({101, 102}, 8)}

\* namespace nns::hosbinder
nns_hosbinder_IHOSBinderDriver == {
  On({0}, <<0, 0, 0>>, <<Data(8, 4), Data(12, 4), Data(16, 4), Buffer(5, 0)>>, <<Buffer(6, 0)>>),
  On({1}, <<0, 0, 0>>, <<Data(8, 4), Data(12, 4), Data(16, 4)>>, <<>>),
  On({2}, <<0, 1, 0>>, <<Data(8, 4), Data(12, 4)>>, <<Copied(0)>>),
  On({3}, <<0, 0, 0>>, <<Data(8, 4), Data(12, 4), Data(16, 4), Buffer(33, 0)>>, <<Buffer(34, 0)>>)}

\* namespace nns::nvdrv
nns_nvdrv_INvDrvDebugFSServices == {Plain(0..4)}
nns_nvdrv_INvDrvServices == {Plain(0..13)}

\* namespace nv::gemcontrol
nv_gemcontrol_INvGemControl == {Plain(0..7)}

\* namespace nv::gemcoredump
nv_gemcoredump_INvGemCoreDump == {Plain(0..2)}

AllMediaCommands ==
  UNION {ahid_ICtrlSession, ahid_IReadSession, ahid_IServerSession, ahid_hdr_ISession,
    audio_detail_IAudioDebugManager, audio_detail_IAudioDevice, audio_detail_IAudioIn,
    audio_detail_IAudioInManager, audio_detail_IAudioInManagerForApplet,
    audio_detail_IAudioInManagerForDebugger, audio_detail_IAudioOut,
    audio_detail_IAudioOutManager, audio_detail_IAudioOutManagerForApplet,
    audio_detail_IAudioOutManagerForDebugger, audio_detail_IAudioRenderer,
    audio_detail_IAudioRendererManager, audio_detail_IAudioRendererManagerForApplet,
    audio_detail_IAudioRendererManagerForDebugger, audio_detail_IFinalOutputRecorder,
    audio_detail_IFinalOutputRecorderManager,
    audio_detail_IFinalOutputRecorderManagerForApplet,
    audio_detail_IFinalOutputRecorderManagerForDebugger, audioctrl_detail_IAudioController,
    cec_ICecManager, codec_detail_IHardwareOpusDecoder,
    codec_detail_IHardwareOpusDecoderManager, hid_IActiveVibrationDeviceList,
    hid_IAppletResource, hid_IHidDebugServer, hid_IHidServer, hid_IHidSystemServer,
    hid_IHidTemporaryServer, irsensor_IIrSensorServer, irsensor_IIrSensorSystemServer,
    lbl_detail_ILblController, mmnv_IRequest, visrv_sf_IApplicationDisplayService,
    visrv_sf_IApplicationRootService, visrv_sf_IManagerDisplayService,
    visrv_sf_IManagerRootService, visrv_sf_ISystemDisplayService,
    visrv_sf_ISystemRootService, xcd_detail_ISystemServer, nns_hosbinder_IHOSBinderDriver,
    nns_nvdrv_INvDrvDebugFSServices, nns_nvdrv_INvDrvServices, nv_gemcontrol_INvGemControl,
    nv_gemcoredump_INvGemCoreDump}
=============================================================================
